---------------------------- MODULE Spec2Model ----------------------------
(***************************************************************************)
(* SecureSphere authentication service: the user store, the register and   *)
(* login handlers, the session middleware (protect, optionalAuth), the     *)
(* protected handlers (getProfile, logout, verifyToken), the CORS check    *)
(* with the global error handler, and a browser's cookie jar, as a state   *)
(* machine over concurrently served HTTP requests.                         *)
(*                                                                         *)
(* Strings whose content the code inspects (names, emails, passwords) are  *)
(* sequences of one-character strings, so that trimming, lower-casing,     *)
(* length checks and the e-mail patterns are computed, not assumed.        *)
(***************************************************************************)
EXTENDS Integers, Sequences, FiniteSets, TLC

(***************************************************************************)
(* Bounds of the model and configuration                                   *)
(***************************************************************************)
\* concurrently served requests
MaxSlots == 2
\* user documents the store may hold
MaxUsers == 2
\* last value of the clock
MaxTime == 1
\* JWT_EXPIRE, in clock ticks
JwtExpire == 1
\* distinct salts bcrypt.genSalt may draw
MaxSalt == 1
\* milliseconds in one tick of the clock
TickMs == 10000

(***************************************************************************)
(* Characters and string helpers                                           *)
(***************************************************************************)
LowerLetters ==
    <<"a","b","c","d","e","f","g","h","i","j","k","l","m",
      "n","o","p","q","r","s","t","u","v","w","x","y","z">>

UpperLetters ==
    <<"A","B","C","D","E","F","G","H","I","J","K","L","M",
      "N","O","P","Q","R","S","T","U","V","W","X","Y","Z">>

Digits == {"0","1","2","3","4","5","6","7","8","9"}

Range(f) == {f[i] : i \in DOMAIN f}

Letters == Range(LowerLetters) \cup Range(UpperLetters)

IsLetter(c) == c \in Letters

\* String.prototype.toLowerCase, one character
ToLowerChar(c) ==
    IF \E i \in DOMAIN UpperLetters : UpperLetters[i] = c
    THEN LowerLetters[CHOOSE i \in DOMAIN UpperLetters : UpperLetters[i] = c]
    ELSE c

\* String.prototype.toLowerCase
ToLowerCase(s) == [i \in DOMAIN s |-> ToLowerChar(s[i])]

\* the regular expression class \w
WordChar(c) == IsLetter(c) \/ c \in Digits \/ c = "_"

AllChars(s, P(_)) == \A i \in DOMAIN s : P(s[i])

\* trim(): whitespace removed at both ends
RECURSIVE TrimLeft(_)
TrimLeft(s) ==
    IF s # <<>> /\ Head(s) = " " THEN TrimLeft(Tail(s)) ELSE s

RECURSIVE TrimRight(_)
TrimRight(s) ==
    IF s # <<>> /\ s[Len(s)] = " " THEN TrimRight(SubSeq(s, 1, Len(s) - 1)) ELSE s

Trim(s) == TrimRight(TrimLeft(s))

\* String.prototype.split(ch): the pieces between occurrences of ch
RECURSIVE SplitOn(_, _)
SplitOn(s, ch) ==
    IF \E i \in DOMAIN s : s[i] = ch
    THEN LET i == CHOOSE k \in DOMAIN s :
                      s[k] = ch /\ \A j \in 1..(k - 1) : s[j] # ch
         IN  <<SubSeq(s, 1, i - 1)>> \o SplitOn(SubSeq(s, i + 1, Len(s)), ch)
    ELSE <<s>>


(***************************************************************************)
(* Route validation (express-validator chains of the auth routes)          *)
(***************************************************************************)
MinNameLen == 2
MaxNameLen == 50
MinPasswordLen == 6

\* one dot-separated part of the local part: validator's emailUserPart class,
\* restricted to the characters of the model's alphabet
UserPartChar(c) == IsLetter(c) \/ c \in Digits \/ c \in {"+", "-", "_"}

UserPartOk(p) == p # <<>> /\ AllChars(p, UserPartChar)

\* one label of a fully qualified domain name
LabelChar(c) == IsLetter(c) \/ c \in Digits \/ c = "-"

LabelOk(p) ==
    /\ p # <<>>
    /\ AllChars(p, LabelChar)
    /\ Head(p) # "-"
    /\ p[Len(p)] # "-"

\* isFQDN with require_tld: at least two labels, an alphabetic last label
IsFQDN(d) ==
    LET parts == SplitOn(d, ".")
        tld == parts[Len(parts)]
    IN  /\ Len(parts) >= 2
        /\ Len(tld) >= 2
        /\ AllChars(tld, IsLetter)
        /\ \A i \in DOMAIN parts : LabelOk(parts[i])

\* isEmail(): one "@", a dotted local part, a fully qualified domain
IsEmail(s) ==
    LET parts == SplitOn(s, "@")
    IN  /\ Len(parts) = 2
        /\ LET userParts == SplitOn(parts[1], ".")
           IN  \A i \in DOMAIN userParts : UserPartOk(userParts[i])
        /\ IsFQDN(parts[2])

\* normalizeEmail(): lower-cases the whole address (all_lowercase); the
\* provider-specific rewrites (gmail, outlook, yahoo, icloud) apply to domains
\* outside the model's alphabet of addresses
NormalizeEmail(s) == ToLowerCase(s)

\* one entry of validationResult(req).array(): the field, the value the
\* failed validator saw (after the sanitizers before it), and the message
FieldError(path, value, msg) == [path |-> path, value |-> value, msg |-> msg]

NameErrors(name) ==
    LET v == Trim(name)
    IN  (IF v = <<>>
         THEN <<FieldError("name", v, "Name is required")>> ELSE <<>>)
        \o (IF Len(v) < MinNameLen
            THEN <<FieldError("name", v, "Name must be at least 2 characters")>>
            ELSE <<>>)
        \o (IF Len(v) > MaxNameLen
            THEN <<FieldError("name", v, "Name cannot exceed 50 characters")>>
            ELSE <<>>)

EmailErrors(email) ==
    LET v == Trim(email)
    IN  (IF v = <<>>
         THEN <<FieldError("email", v, "Email is required")>> ELSE <<>>)
        \o (IF ~IsEmail(v)
            THEN <<FieldError("email", v, "Please provide a valid email")>>
            ELSE <<>>)

PasswordErrors(password) ==
    (IF password = <<>>
     THEN <<FieldError("password", password, "Password is required")>>
     ELSE <<>>)
    \o (IF Len(password) < MinPasswordLen
        THEN <<FieldError("password", password,
                          "Password must be at least 6 characters")>>
        ELSE <<>>)

\* registerValidation: the errors validationResult(req) collects
registerValidation(body) ==
    NameErrors(body.name)
    \o EmailErrors(body.email)
    \o PasswordErrors(body.password)
    \o (IF body.confirmPassword = <<>>
        THEN <<FieldError("confirmPassword", body.confirmPassword,
                          "Please confirm your password")>>
        ELSE <<>>)

\* loginValidation
loginValidation(body) ==
    EmailErrors(body.email)
    \o (IF body.password = <<>>
        THEN <<FieldError("password", body.password, "Password is required")>>
        ELSE <<>>)

\* req.body after the chains' sanitizers (trim, normalizeEmail) have run
Sanitize(body) ==
    [body EXCEPT !.email = NormalizeEmail(Trim(body.email))]

SanitizeRegister(body) ==
    [Sanitize(body) EXCEPT !.name = Trim(body.name)]

(***************************************************************************)
(* User model (mongoose schema, hooks and instance methods)                *)
(***************************************************************************)
\* \w+([\.-]?\w+)* : words of \w joined by at most one "." or "-"
Dotted(s) ==
    /\ s # <<>>
    /\ \A i \in DOMAIN s : WordChar(s[i]) \/ s[i] \in {".", "-"}
    /\ WordChar(s[1])
    /\ WordChar(s[Len(s)])
    /\ \A i \in 1..(Len(s) - 1) : WordChar(s[i]) \/ WordChar(s[i + 1])

\* (\.\w{2,3})+ : one or more groups of a dot and two or three \w
RECURSIVE TldGroups(_)
TldGroups(s) ==
    \E n \in {2, 3} :
        /\ Len(s) >= n + 1
        /\ s[1] = "."
        /\ \A i \in 2..(n + 1) : WordChar(s[i])
        /\ (Len(s) = n + 1 \/ TldGroups(SubSeq(s, n + 2, Len(s))))

\* the schema's match pattern for email:
\* /^\w+([\.-]?\w+)*@\w+([\.-]?\w+)*(\.\w{2,3})+$/
EmailMatch(s) ==
    LET parts == SplitOn(s, "@")
    IN  /\ Len(parts) = 2
        /\ Dotted(parts[1])
        /\ \E i \in 1..Len(parts[2]) :
              /\ Dotted(SubSeq(parts[2], 1, i))
              /\ TldGroups(SubSeq(parts[2], i + 1, Len(parts[2])))

SchemaMinName == 2
SchemaMaxName == 50
SchemaMinPassword == 6

\* the schema's setters: trim on name, lowercase and trim on email
SchemaCast(doc) ==
    [doc EXCEPT !.name = Trim(doc.name),
                !.email = Trim(ToLowerCase(doc.email))]

\* document validation run by save(): required, minlength, maxlength, match
SchemaValid(doc) ==
    /\ doc.name # <<>>
    /\ Len(doc.name) >= SchemaMinName
    /\ Len(doc.name) <= SchemaMaxName
    /\ doc.email # <<>>
    /\ EmailMatch(doc.email)
    /\ doc.password # <<>>
    /\ Len(doc.password) >= SchemaMinPassword


\* bcrypt.hash(password, salt): a text that begins with the salt; the
\* characters after the salt stand for the one-way image of the password
\* under that salt
HashPrefix(salt) == <<"$", ToString(salt), "$">>

Hash(password, salt) == HashPrefix(salt) \o password

\* the part of a hash after its salt
Digest(hash) == SubSeq(hash, Len(HashPrefix(1)) + 1, Len(hash))

\* bcrypt.compare(enteredPassword, this.password): the entered password is
\* hashed with the salt the stored hash begins with
comparePassword(user, enteredPassword) ==
    SubSeq(user.password, 1, Len(HashPrefix(1))) \o enteredPassword
        = user.password

\* mutant of PreSave: the password is hashed on every save
PreSaveAlways(doc, modified, salt) ==
    [doc EXCEPT !.password = Hash(doc.password, salt)]

\* UserSchema.pre('save'): the password is hashed only when it is new or
\* modified
PreSave(doc, modified, salt) ==
    IF "password" \notin modified
    THEN doc
    ELSE [doc EXCEPT !.password = Hash(doc.password, salt)]

\* user.save() of a loaded document: the pre-save hook runs, then the
\* modified paths are written to the stored document
Save(store, id, doc, modified, salt) ==
    LET hooked == PreSave(doc, modified, salt)
        written == modified
                   \cup (IF hooked.password # doc.password
                         THEN {"password"} ELSE {})
    IN  [store EXCEPT ![id] =
            [f \in DOMAIN store[id] |->
                IF f \in written THEN hooked[f] ELSE store[id][f]]]

\* the message of the error jwt.sign throws for the secret, "" when it signs:
\* a secret that is not set is refused
SignError(secret) ==
    IF secret = <<>> THEN "secretOrPrivateKey must have a value" ELSE ""

\* mutant of generateAuthToken: the payload's id is not the user's _id
generateAuthTokenOtherId(id, user, t) ==
    [form |-> "jwt", sub |-> id + 1, email |-> user.email,
     iat |-> t, exp |-> t + JwtExpire, sig |-> "good"]

\* jwt.sign({id, email}, JWT_SECRET, {expiresIn: JWT_EXPIRE}) at time t
generateAuthToken(id, user, t) ==
    [form |-> "jwt", sub |-> id, email |-> user.email,
     iat |-> t, exp |-> t + JwtExpire, sig |-> "good"]

getPublicProfile(id, user) ==
    [id |-> id, name |-> user.name, email |-> user.email,
     registeredAt |-> user.createdAt, lastLogin |-> user.lastLogin]

\* User.findOne({email}): the _id of the user holding the email, 0 for null
findOne(store, email) ==
    IF \E i \in DOMAIN store : store[i].email = email
    THEN CHOOSE i \in DOMAIN store : store[i].email = email
    ELSE 0

\* User.findById(id): 0 for null
findById(store, id) == IF id \in DOMAIN store THEN id ELSE 0

\* mutant of UniqueIndexAllows: the collection has no unique index
NoUniqueIndex(store, email) == TRUE

\* the unique index on email refuses a second document with the same email
UniqueIndexAllows(store, email) == \A i \in DOMAIN store : store[i].email # email

\* User.create(doc) at time t: cast, validate, hash in the pre-save hook,
\* insert under the unique index.  The result names the error thrown, if any.
Create(store, doc, salt, t) ==
    LET cast == SchemaCast(doc)
    IN  IF ~SchemaValid(cast)
        THEN [error |-> "ValidationError", store |-> store]
        ELSE IF ~UniqueIndexAllows(store, cast.email)
        THEN [error |-> "MongoServerError", store |-> store]
        ELSE [error |-> "",
              store |-> Append(store,
                  PreSave([name |-> cast.name, email |-> cast.email,
                           password |-> cast.password,
                           createdAt |-> t, lastLogin |-> t],
                          {"name", "email", "password"}, salt))]


(***************************************************************************)
(* State                                                                   *)
(***************************************************************************)
VARIABLES
    users,          \* the users collection: users[i] is the document with _id i
    now,            \* Date.now(), in ticks
    NODE_ENV,       \* process.env.NODE_ENV
    COOKIE_EXPIRE,  \* process.env.COOKIE_EXPIRE: <<>> when not set, else <<text>>
    JWT_SECRET,     \* process.env.JWT_SECRET: <<>> when not set, else <<text>>
    reqs,           \* the requests being served, one per slot
    jar,            \* the token cookie the browser holds: <<>> or <<entry>>
    loggedOut,      \* the tokens that successful logout calls were made with
    page            \* the page's localStorage and what its script did last

vars ==
    <<users, now, NODE_ENV, COOKIE_EXPIRE, JWT_SECRET, reqs, jar, loggedOut, page>>

\* the process environment
config == <<NODE_ENV, COOKIE_EXPIRE, JWT_SECRET>>

Slots == 1..MaxSlots

(***************************************************************************)
(* Requests and responses                                                  *)
(***************************************************************************)
\* values a token cookie or a bearer word can have: a JWT, the empty string,
\* or a text that is no JWT (the string 'none')
EmptyString ==
    [form |-> "empty", sub |-> 0, email |-> <<>>, iat |-> 0, exp |-> 0, sig |-> ""]

NoneText ==
    [form |-> "text", sub |-> 0, email |-> <<>>, iat |-> 0, exp |-> 0, sig |-> ""]

EmptyBody == [name |-> <<>>, email |-> <<>>, password |-> <<>>, confirmPassword |-> <<>>]

NoRes ==
    [status |-> 0, success |-> FALSE, message |-> <<>>, errors |-> <<>>,
     token |-> <<>>, user |-> <<>>, cookie |-> <<>>, error |-> <<>>,
     authenticated |-> <<>>, stack |-> <<>>]

\* res.status(status).json({success, message})
Json(status, success, message) ==
    [NoRes EXCEPT !.status = status, !.success = success, !.message = message]

\* error.message of the errors the store throws, by the error's name
ErrorMessage(name) ==
    CASE name = "ValidationError" -> "User validation failed"
      [] name = "MongoServerError" -> "E11000 duplicate key error collection"
      [] OTHER -> name

\* the catch blocks of the handlers: error.message only in development
ServerError(env, message, error) ==
    [Json(500, FALSE, message) EXCEPT
        !.error = IF env = "development" THEN <<ErrorMessage(error)>> ELSE <<>>]

(***************************************************************************)
(* Server middleware: CORS and the global error handler                    *)
(***************************************************************************)
Origin(scheme, host, port) == [scheme |-> scheme, host |-> host, port |-> port]

allowedOrigins ==
    {Origin("https", "secure-sphere-login-page.vercel.app", <<>>),
     Origin("http", "localhost", <<"3","0","0","0">>),
     Origin("http", "127.0.0.1", <<"3","0","0","0">>),
     Origin("http", "127.0.0.1", <<"5","1","7","3">>),
     Origin("http", "localhost", <<"5","1","7","3">>)}

\* /^https?:\/\/(localhost|127\.0\.0\.1)(:\d+)?$/
LocalOrigin(o) ==
    /\ o.scheme \in {"http", "https"}
    /\ o.host \in {"localhost", "127.0.0.1"}
    /\ \A i \in DOMAIN o.port : o.port[i] \in Digits

\* the origin callback of cors(): <<>> is a request without Origin header
CorsAllows(env, origin) ==
    \/ origin = <<>>
    \/ env # "production" /\ LocalOrigin(origin[1])
    \/ origin[1] \in allowedOrigins

\* new Error('Not allowed by CORS'): no statusCode (0)
CorsError ==
    [name |-> "Error", message |-> "Not allowed by CORS", statusCode |-> 0,
     stack |-> "Error: Not allowed by CORS at origin"]

\* app.use((err, req, res, next) => ...): err.message in every environment,
\* err.stack in development
globalErrorHandler(env, err) ==
    [Json(IF err.statusCode # 0 THEN err.statusCode ELSE 500, FALSE,
          IF err.message # "" THEN <<err.message>> ELSE <<"Server Error">>)
        EXCEPT !.stack = IF env = "development" THEN <<err.stack>> ELSE <<>>]

IdleReq ==
    [route |-> "idle", pc |-> "idle", body |-> EmptyBody,
     cookies |-> <<>>, authorization |-> <<>>,
     user |-> <<>>, doc |-> <<>>, res |-> NoRes,
     at |-> 0, created |-> 0, size |-> 0, taken |-> FALSE, match |-> FALSE,
     thrown |-> "", sentBy |-> "", handled |-> FALSE, after |-> FALSE]

\* Fields of a request that the code does not hold, kept for stating properties:
\*   at       Date.now() when the request passed through protect
\*   created  _id of the document the request inserted, 0 if none
\*   size     number of documents in the store when the request looked it up
\*   taken    the store held the request's email when the request looked it up
\*   match    the password sent verified against the stored hash at that time
\*   thrown   the error caught: its name, or its message for a plain Error
\*   sentBy   who sent the response: "middleware" or "handler"
\*   handled  the route's handler has been entered
\*   after    a successful logout had been made with the request's token
\*            before the request arrived

CookieExpireDays == 7
LogoutCookieSeconds == 10

\* Number(text) for a text of decimal digits; Number('') is 0
RECURSIVE ToNumber(_)
ToNumber(text) ==
    IF text = <<>>
    THEN 0
    ELSE 10 * ToNumber(SubSeq(text, 1, Len(text) - 1))
         + (CHOOSE d \in 0..9 : ToString(d) = text[Len(text)])

\* process.env.COOKIE_EXPIRE || 7: an unset variable and the empty text are
\* falsy, any other text is used as the number it spells
CookieExpire(cookieExpire) ==
    IF cookieExpire # <<>> /\ cookieExpire[1] # <<>>
    THEN ToNumber(cookieExpire[1])
    ELSE CookieExpireDays

\* mutant of SessionCookie: the configured lifetime is ignored
SessionCookieFixed(env, cookieExpire, token, t) ==
    [name |-> "token", value |-> token,
     expires |-> [at |-> t, plusMs |-> CookieExpireDays * 24 * 60 * 60 * 1000],
     httpOnly |-> TRUE,
     secure |-> env = "production",
     sameSite |-> "strict"]

\* the options of res.cookie('token', token, cookieOptions) at time t
SessionCookie(env, cookieExpire, token, t) ==
    [name |-> "token", value |-> token,
     expires |-> [at |-> t,
                  plusMs |-> CookieExpire(cookieExpire) * 24 * 60 * 60 * 1000],
     httpOnly |-> TRUE,
     secure |-> env = "production",
     sameSite |-> "strict"]

\* mutant of LogoutCookie: the cookie lives as long as a session cookie
LogoutCookieLong(t) ==
    [name |-> "token", value |-> NoneText,
     expires |-> [at |-> t, plusMs |-> CookieExpireDays * 24 * 60 * 60 * 1000],
     httpOnly |-> TRUE,
     secure |-> FALSE,
     sameSite |-> ""]

\* res.cookie('token', 'none', {expires, httpOnly}) of logout
LogoutCookie(t) ==
    [name |-> "token", value |-> NoneText,
     expires |-> [at |-> t, plusMs |-> LogoutCookieSeconds * 1000],
     httpOnly |-> TRUE,
     secure |-> FALSE,
     sameSite |-> ""]

(***************************************************************************)
(* Session middleware: protect                                             *)
(***************************************************************************)
\* a JavaScript string is truthy unless it is empty
Truthy(v) == v.form # "empty"

\* String.prototype.startsWith
StartsWith(s, prefix) ==
    Len(s) >= Len(prefix) /\ SubSeq(s, 1, Len(prefix)) = prefix

Bearer == <<"B","e","a","r","e","r">>

\* mutant of ExtractToken: the cookie is the only place looked at
ExtractTokenCookieOnly(cookies, authorization) ==
    IF cookies # <<>> /\ Truthy(cookies[1]) THEN <<cookies[1]>> ELSE <<>>

\* mutant of ExtractToken: the header is looked at first
ExtractTokenHeaderFirst(cookies, authorization) ==
    IF authorization # <<>> /\ StartsWith(authorization[1].scheme, Bearer)
       /\ authorization[1].words # <<>>
    THEN <<authorization[1].words[1]>>
    ELSE IF cookies # <<>> /\ Truthy(cookies[1])
    THEN <<cookies[1]>>
    ELSE <<>>

\* mutant of ExtractToken: a cookie value that is no JWT is passed over
ExtractTokenSkipsText(cookies, authorization) ==
    IF cookies # <<>> /\ Truthy(cookies[1]) /\ cookies[1].form = "jwt"
    THEN <<cookies[1]>>
    ELSE IF authorization # <<>> /\ StartsWith(authorization[1].scheme, Bearer)
    THEN IF authorization[1].words # <<>>
         THEN <<authorization[1].words[1]>>
         ELSE <<>>
    ELSE <<>>

\* the token protect takes from the request: <<>> stands for undefined.
\* An Authorization header is its first word (scheme) and the words after it,
\* as split(' ') gives them.
ExtractToken(cookies, authorization) ==
    IF cookies # <<>> /\ Truthy(cookies[1])
    THEN <<cookies[1]>>
    ELSE IF authorization # <<>> /\ StartsWith(authorization[1].scheme, Bearer)
    THEN IF authorization[1].words # <<>>
         THEN <<authorization[1].words[1]>>
         ELSE <<>>
    ELSE <<>>

\* mutant of Verify: a token is still accepted at the instant it expires
VerifyLateExpiry(token, t) ==
    IF token.form # "jwt" \/ token.sig # "good"
    THEN "JsonWebTokenError"
    ELSE IF t > token.exp
    THEN "TokenExpiredError"
    ELSE ""

\* jwt.verify(token, JWT_SECRET) at time t: the name of the error it throws,
\* "" when it returns the payload.  Shape and signature are checked before
\* the expiry.
Verify(token, t) ==
    IF token.form # "jwt" \/ token.sig # "good"
    THEN "JsonWebTokenError"
    ELSE IF t >= token.exp
    THEN "TokenExpiredError"
    ELSE ""

\* mutant of protect: the payload is decoded (jwt.decode) and not verified
protectDecodesOnly(store, t, cookies, authorization) ==
    LET token == ExtractToken(cookies, authorization)
    IN  IF token = <<>> \/ ~Truthy(token[1])
        THEN [next |-> FALSE, user |-> <<>>,
              res |-> Json(401, FALSE,
                  <<"Not authorized to access this route", "Please login">>)]
        ELSE LET id == findById(store, token[1].sub)
             IN  IF token[1].form # "jwt"
                 THEN [next |-> FALSE, user |-> <<>>,
                       res |-> Json(401, FALSE,
                           <<"Invalid token", "Please login again">>)]
                 ELSE IF id = 0
                 THEN [next |-> FALSE, user |-> <<>>,
                       res |-> Json(401, FALSE,
                           <<"User not found", "Token invalid">>)]
                 ELSE [next |-> TRUE,
                       user |-> <<[id |-> id, name |-> store[id].name,
                                   email |-> store[id].email]>>,
                       res |-> NoRes]

\* mutant of protect: the identity is taken from the verified payload, the
\* user is not looked up
protectTrustsPayload(store, t, cookies, authorization) ==
    LET token == ExtractToken(cookies, authorization)
    IN  IF token = <<>> \/ ~Truthy(token[1])
        THEN [next |-> FALSE, user |-> <<>>,
              res |-> Json(401, FALSE,
                  <<"Not authorized to access this route", "Please login">>)]
        ELSE LET thrown == Verify(token[1], t)
             IN  IF thrown = "JsonWebTokenError"
                 THEN [next |-> FALSE, user |-> <<>>,
                       res |-> Json(401, FALSE,
                           <<"Invalid token", "Please login again">>)]
                 ELSE IF thrown = "TokenExpiredError"
                 THEN [next |-> FALSE, user |-> <<>>,
                       res |-> Json(401, FALSE,
                           <<"Token expired", "Please login again">>)]
                 ELSE [next |-> TRUE,
                       user |-> <<[id |-> token[1].sub, name |-> <<>>,
                                   email |-> token[1].email]>>,
                       res |-> NoRes]

\* mutant of protect: a token a logout was made with is refused
protectRevoking(store, t, cookies, authorization) ==
    LET token == ExtractToken(cookies, authorization)
    IN  IF token = <<>> \/ ~Truthy(token[1])
        THEN [next |-> FALSE, user |-> <<>>,
              res |-> Json(401, FALSE,
                  <<"Not authorized to access this route", "Please login">>)]
        ELSE LET thrown == Verify(token[1], t)
                 id == findById(store, token[1].sub)
             IN  IF thrown = "JsonWebTokenError" \/ token[1] \in loggedOut
                 THEN [next |-> FALSE, user |-> <<>>,
                       res |-> Json(401, FALSE,
                           <<"Invalid token", "Please login again">>)]
                 ELSE IF thrown = "TokenExpiredError"
                 THEN [next |-> FALSE, user |-> <<>>,
                       res |-> Json(401, FALSE,
                           <<"Token expired", "Please login again">>)]
                 ELSE IF id = 0
                 THEN [next |-> FALSE, user |-> <<>>,
                       res |-> Json(401, FALSE,
                           <<"User not found", "Token invalid">>)]
                 ELSE [next |-> TRUE,
                       user |-> <<[id |-> id, name |-> store[id].name,
                                   email |-> store[id].email]>>,
                       res |-> NoRes]

\* protect: either next() with req.user attached, or the response it sends
protect(store, t, cookies, authorization) ==
    LET token == ExtractToken(cookies, authorization)
    IN  IF token = <<>> \/ ~Truthy(token[1])
        THEN [next |-> FALSE, user |-> <<>>,
              res |-> Json(401, FALSE,
                  <<"Not authorized to access this route", "Please login">>)]
        ELSE LET thrown == Verify(token[1], t)
                 id == findById(store, token[1].sub)
             IN  IF thrown = "JsonWebTokenError"
                 THEN [next |-> FALSE, user |-> <<>>,
                       res |-> Json(401, FALSE,
                           <<"Invalid token", "Please login again">>)]
                 ELSE IF thrown = "TokenExpiredError"
                 THEN [next |-> FALSE, user |-> <<>>,
                       res |-> Json(401, FALSE,
                           <<"Token expired", "Please login again">>)]
                 ELSE IF id = 0
                 THEN [next |-> FALSE, user |-> <<>>,
                       res |-> Json(401, FALSE,
                           <<"User not found", "Token invalid">>)]
                 ELSE [next |-> TRUE,
                       user |-> <<[id |-> id, name |-> store[id].name,
                                   email |-> store[id].email]>>,
                       res |-> NoRes]

\* mutant of optionalAuth: the payload is decoded and its expiry not checked
optionalAuthIgnoresExpiry(store, t, cookies, authorization) ==
    LET token == ExtractToken(cookies, authorization)
    IN  IF token = <<>> \/ ~Truthy(token[1])
        THEN [next |-> TRUE, user |-> <<>>, null |-> FALSE, res |-> NoRes]
        ELSE LET id == findById(store, token[1].sub)
             IN  IF token[1].form # "jwt" \/ token[1].sig # "good"
                 THEN [next |-> TRUE, user |-> <<>>, null |-> TRUE, res |-> NoRes]
                 ELSE IF id = 0
                 THEN [next |-> TRUE, user |-> <<>>, null |-> FALSE, res |-> NoRes]
                 ELSE [next |-> TRUE,
                       user |-> <<[id |-> id, name |-> store[id].name,
                                   email |-> store[id].email]>>,
                       null |-> FALSE, res |-> NoRes]

\* optionalAuth: always next(); req.user is the identity, stays undefined
\* (user <<>>) or is set to null (user <<>>, null TRUE)
optionalAuth(store, t, cookies, authorization) ==
    LET token == ExtractToken(cookies, authorization)
    IN  IF token = <<>> \/ ~Truthy(token[1])
        THEN [next |-> TRUE, user |-> <<>>, null |-> FALSE, res |-> NoRes]
        ELSE LET thrown == Verify(token[1], t)
                 id == findById(store, token[1].sub)
             IN  IF thrown # ""
                 THEN [next |-> TRUE, user |-> <<>>, null |-> TRUE, res |-> NoRes]
                 ELSE IF id = 0
                 THEN [next |-> TRUE, user |-> <<>>, null |-> FALSE, res |-> NoRes]
                 ELSE [next |-> TRUE,
                       user |-> <<[id |-> id, name |-> store[id].name,
                                   email |-> store[id].email]>>,
                       null |-> FALSE, res |-> NoRes]

(***************************************************************************)
(* The browser's cookie jar                                                *)
(***************************************************************************)
\* a cookie is sent until the time of its Expires attribute is reached
Alive(cookie, t) ==
    t * TickMs < cookie.expires.at * TickMs + cookie.expires.plusMs

\* the token cookie of a request sent at time t with credentials: 'include'
JarCookies(held, t) ==
    IF held # <<>> /\ Alive(held[1].cookie, t)
    THEN <<held[1].cookie.value>>
    ELSE <<>>

\* Set-Cookie of a response: the cookie replaces the one of the same name;
\* the entry remembers the route that set it
StoreCookie(held, route, res) ==
    IF res.cookie # <<>>
    THEN <<[cookie |-> res.cookie[1], by |-> route]>>
    ELSE held


(***************************************************************************)
(* Inputs                                                                  *)
(***************************************************************************)
NameAl == <<"A","l">>
NameShort == <<" ","A"," ">>

EmailA == <<"a","@","x",".","c","o">>
EmailAUpper == <<"A","@","X",".","c","o">>
EmailB == <<"b","@","x",".","c","o">>
\* accepted by isEmail, refused by the schema's pattern
EmailInfo == <<"a","@","x",".","i","n","f","o">>
EmailPlus == <<"a","+","b","@","x",".","c","o">>
EmailBad == <<"a","x",".","c","o">>

PwSecret == <<"s","e","c","r","e","t">>
PwHunter == <<"h","u","n","t","e","r","2">>
PwShort == <<"a","b","c">>

Body(name, email, password, confirmPassword) ==
    [name |-> name, email |-> email, password |-> password,
     confirmPassword |-> confirmPassword]

RegisterBodies ==
    {Body(NameAl, e, PwSecret, PwSecret) :
        e \in {EmailA, EmailAUpper, EmailB, EmailInfo, EmailPlus}}
    \cup {Body(NameAl, EmailA, PwSecret, PwHunter),
          Body(NameAl, EmailB, PwSecret, <<>>),
          Body(NameShort, EmailA, PwSecret, PwHunter),
          Body(NameAl, EmailBad, PwShort, PwShort)}

LoginBodies ==
    {Body(<<>>, e, p, <<>>) :
        e \in {EmailA, EmailAUpper, EmailB}, p \in {PwSecret, PwHunter}}
    \cup {Body(<<>>, EmailBad, PwSecret, <<>>),
          Body(<<>>, EmailA, <<>>, <<>>)}

Basic == <<"B","a","s","i","c">>

\* a validly signed token whose subject no user document has
StrayToken ==
    [form |-> "jwt", sub |-> MaxUsers + 1, email |-> EmailB,
     iat |-> 0, exp |-> JwtExpire, sig |-> "good"]

\* the tokens the service has handed out in the responses still in the slots
HandedOut == {reqs[s].res.token[1] : s \in {x \in Slots : reqs[x].res.token # <<>>}}

\* what a client may put in a cookie or after the scheme of the header
TokenValues ==
    HandedOut
    \cup {[t EXCEPT !.sig = "bad"] : t \in HandedOut}
    \cup {StrayToken, NoneText, EmptyString}

CookieChoices == {<<>>} \cup {<<v>> : v \in TokenValues}

Header(scheme, words) == <<[scheme |-> scheme, words |-> words]>>

AuthorizationChoices ==
    {<<>>, Header(Bearer, <<>>)}
    \cup {Header(Bearer, <<v>>) : v \in TokenValues}
    \cup {Header(Basic, <<v>>) : v \in HandedOut}

\* the cookie and header combinations that requests arrive with
Carry(cookies, authorization) ==
    [cookies |-> cookies, authorization |-> authorization]

Credentials ==
    {Carry(c, <<>>) : c \in CookieChoices}
    \cup {Carry(<<>>, Header(Bearer, <<>>))}
    \cup {Carry(<<>>, Header(Bearer, <<t>>)) : t \in HandedOut}
    \cup {Carry(<<>>, Header(Basic, <<t>>)) : t \in HandedOut}
    \cup {Carry(<<c>>, Header(Bearer, <<t>>)) :
              c \in {NoneText, EmptyString}, t \in HandedOut}

ProtectedRoutes == {"profile", "logout", "verify"}

\* localStorage of a browser that has not visited the site: no token, no
\* user.  The other fields are not held by the script, they record what its
\* last step was:
\*   did       the step, "" before the first
\*   status    the status of the response the step saw, 0 if it saw none
\*   before    the token that was stored when the step began
\*   returned  the value checkAuthStatus returned: <<>>, <<TRUE>> or <<FALSE>>
NoPage ==
    [token |-> <<>>, user |-> <<>>,
     did |-> "", status |-> 0, before |-> <<>>, returned |-> <<>>]

(***************************************************************************)
(* Initial state                                                           *)
(***************************************************************************)
Init ==
    /\ users = <<>>
    /\ now = 0
    /\ NODE_ENV \in {"development", "production"}
    /\ COOKIE_EXPIRE = <<>>
    /\ JWT_SECRET = <<"secret">>
    /\ reqs = [s \in Slots |-> IdleReq]
    /\ jar = <<>>
    /\ loggedOut = {}
    /\ page = NoPage

(***************************************************************************)
(* POST /api/auth/register                                                 *)
(***************************************************************************)
\* register and login requests are served in the first free slot
Free(s) == reqs[s].pc = "idle" /\ \A x \in 1..(s - 1) : reqs[x].pc # "idle"

\* some stored user holds the address, compared without regard to case
Holds(store, email) ==
    \E i \in DOMAIN store :
        ToLowerCase(store[i].email) = ToLowerCase(Trim(email))

\* the password is the one the holder of the address registered with
Verifies(store, email, password) ==
    \E i \in DOMAIN store :
        /\ ToLowerCase(store[i].email) = ToLowerCase(Trim(email))
        /\ Digest(store[i].password) = password

\* mutant of RegisterResult: the lookup uses the address as it was sent
RegisterResultRawEmail(store, body) ==
    LET errors == registerValidation(body)
    IN  IF errors # <<>>
        THEN [Json(400, FALSE, <<"Validation failed">>) EXCEPT !.errors = errors]
        ELSE IF body.password # body.confirmPassword
        THEN Json(400, FALSE, <<"Passwords do not match">>)
        ELSE IF findOne(store, body.email) # 0
        THEN Json(400, FALSE, <<"Email already registered",
                                "Please use a different email or login">>)
        ELSE NoRes

\* mutant of RegisterResult: password and confirmPassword are not compared
RegisterResultNoConfirm(store, body) ==
    LET errors == registerValidation(body)
        b == SanitizeRegister(body)
    IN  IF errors # <<>>
        THEN [Json(400, FALSE, <<"Validation failed">>) EXCEPT !.errors = errors]
        ELSE IF findOne(store, ToLowerCase(b.email)) # 0
        THEN Json(400, FALSE, <<"Email already registered",
                                "Please use a different email or login">>)
        ELSE NoRes

\* mutant of RegisterResult: the address is looked up before the passwords
\* are compared
RegisterResultEmailFirst(store, body) ==
    LET errors == registerValidation(body)
        b == SanitizeRegister(body)
    IN  IF errors # <<>>
        THEN [Json(400, FALSE, <<"Validation failed">>) EXCEPT !.errors = errors]
        ELSE IF findOne(store, ToLowerCase(b.email)) # 0
        THEN Json(400, FALSE, <<"Email already registered",
                                "Please use a different email or login">>)
        ELSE IF b.password # b.confirmPassword
        THEN Json(400, FALSE, <<"Passwords do not match">>)
        ELSE NoRes

\* register up to the existence check (the first await)
RegisterResult(store, body) ==
    LET errors == registerValidation(body)
        b == SanitizeRegister(body)
    IN  IF errors # <<>>
        THEN [Json(400, FALSE, <<"Validation failed">>) EXCEPT !.errors = errors]
        ELSE IF b.password # b.confirmPassword
        THEN Json(400, FALSE, <<"Passwords do not match">>)
        ELSE IF findOne(store, ToLowerCase(b.email)) # 0
        THEN Json(400, FALSE, <<"Email already registered",
                                "Please use a different email or login">>)
        ELSE NoRes

\* documents that requests past their existence check are about to insert
Pending == Cardinality({s \in Slots : reqs[s].pc = "create"})

Register(s, body) ==
    /\ Free(s)
    /\ LET res == RegisterResult(users, body)
       IN  /\ res = NoRes => Len(users) + Pending < MaxUsers
           /\ reqs' = [reqs EXCEPT ![s] =
                 [IdleReq EXCEPT
                    !.route = "register", !.body = body,
                    !.size = Len(users),
                    !.taken = Holds(users, body.email),
                    !.pc = IF res = NoRes THEN "create" ELSE "done",
                    !.sentBy = IF res = NoRes THEN "" ELSE "handler",
                    !.handled = TRUE,
                    !.res = res]]
    /\ UNCHANGED <<users, now, config, jar, loggedOut, page>>

\* register from User.create to the response
RegisterCreate(s, salt) ==
    /\ reqs[s].route = "register"
    /\ reqs[s].pc = "create"
    /\ LET b == SanitizeRegister(reqs[s].body)
           r == Create(users,
                       [name |-> b.name, email |-> ToLowerCase(b.email),
                        password |-> b.password],
                       salt, now)
           id == Len(r.store)
           token == generateAuthToken(id, r.store[id], now)
       IN  IF r.error # ""
           THEN /\ reqs' = [reqs EXCEPT ![s].pc = "done", ![s].sentBy = "handler",
                      ![s].thrown = r.error,
                      ![s].res = ServerError(NODE_ENV,
                          <<"Server error during registration">>, r.error)]
                /\ UNCHANGED users
           ELSE IF SignError(JWT_SECRET) # ""
           THEN /\ users' = r.store
                /\ reqs' = [reqs EXCEPT ![s].pc = "done", ![s].sentBy = "handler",
                      ![s].created = id,
                      ![s].thrown = SignError(JWT_SECRET),
                      ![s].res = ServerError(NODE_ENV,
                          <<"Server error during registration">>,
                          SignError(JWT_SECRET))]
           ELSE /\ users' = r.store
                /\ reqs' = [reqs EXCEPT ![s].pc = "done", ![s].sentBy = "handler",
                      ![s].created = id,
                      ![s].res = [Json(201, TRUE, <<"Registration successful">>)
                          EXCEPT !.token = <<token>>,
                                 !.user = <<getPublicProfile(id, r.store[id])>>,
                                 !.cookie = <<SessionCookie(NODE_ENV, COOKIE_EXPIRE, token, now)>>]]
    /\ UNCHANGED <<now, config, jar, loggedOut, page>>


(***************************************************************************)
(* POST /api/auth/login                                                    *)
(***************************************************************************)
\* mutant of LoginResult: an unknown email gets a message of its own
LoginResultTellsApart(store, body) ==
    LET errors == loginValidation(body)
        b == Sanitize(body)
        id == findOne(store, ToLowerCase(b.email))
    IN  IF errors # <<>>
        THEN [Json(400, FALSE, <<"Validation failed">>) EXCEPT !.errors = errors]
        ELSE IF id = 0
        THEN Json(401, FALSE, <<"No account with this email">>)
        ELSE IF ~comparePassword(store[id], b.password)
        THEN Json(401, FALSE, <<"Invalid email or password">>)
        ELSE NoRes

\* mutant of LoginResult: the lookup uses the address as it was sent
LoginResultRawEmail(store, body) ==
    LET errors == loginValidation(body)
        id == findOne(store, body.email)
    IN  IF errors # <<>>
        THEN [Json(400, FALSE, <<"Validation failed">>) EXCEPT !.errors = errors]
        ELSE IF id = 0
        THEN Json(401, FALSE, <<"Invalid email or password">>)
        ELSE IF ~comparePassword(store[id], body.password)
        THEN Json(401, FALSE, <<"Invalid email or password">>)
        ELSE NoRes

\* login up to user.lastLogin = Date.now(): validation, lookup, comparison.
\* The result is the response sent, or NoRes when the handler goes on to save.
LoginResult(store, body) ==
    LET errors == loginValidation(body)
        b == Sanitize(body)
        id == findOne(store, ToLowerCase(b.email))
    IN  IF errors # <<>>
        THEN [Json(400, FALSE, <<"Validation failed">>) EXCEPT !.errors = errors]
        ELSE IF id = 0
        THEN Json(401, FALSE, <<"Invalid email or password">>)
        ELSE IF ~comparePassword(store[id], b.password)
        THEN Json(401, FALSE, <<"Invalid email or password">>)
        ELSE NoRes

\* mutant of Login: lastLogin is written as soon as the user is found,
\* before the password is compared
LoginStampsFirst(s, body) ==
    /\ Free(s)
    /\ LET res == LoginResult(users, body)
           id == findOne(users, ToLowerCase(Sanitize(body).email))
       IN  /\ reqs' = [reqs EXCEPT ![s] =
                 [IdleReq EXCEPT
                    !.route = "login", !.body = body,
                    !.size = Len(users),
                    !.taken = Holds(users, body.email),
                    !.match = Verifies(users, body.email, body.password),
                    !.pc = IF res = NoRes THEN "save" ELSE "done",
                    !.sentBy = IF res = NoRes THEN "" ELSE "handler",
                    !.handled = TRUE,
                    !.doc = IF res = NoRes
                            THEN <<[id |-> id,
                                    user |-> [users[id] EXCEPT !.lastLogin = now]]>>
                            ELSE <<>>,
                    !.res = res]]
           /\ users' = IF loginValidation(body) = <<>> /\ id # 0
                       THEN [users EXCEPT ![id].lastLogin = now]
                       ELSE users
    /\ UNCHANGED <<now, config, jar, loggedOut, page>>

Login(s, body) ==
    /\ Free(s)
    /\ LET res == LoginResult(users, body)
           id == findOne(users, ToLowerCase(Sanitize(body).email))
       IN  reqs' = [reqs EXCEPT ![s] =
              [IdleReq EXCEPT
                 !.route = "login", !.body = body,
                 !.size = Len(users),
                 !.taken = Holds(users, body.email),
                 !.match = Verifies(users, body.email, body.password),
                 !.pc = IF res = NoRes THEN "save" ELSE "done",
                 !.sentBy = IF res = NoRes THEN "" ELSE "handler",
                 !.handled = TRUE,
                 !.doc = IF res = NoRes
                         THEN <<[id |-> id,
                                 user |-> [users[id] EXCEPT !.lastLogin = now]]>>
                         ELSE <<>>,
                 !.res = res]]
    /\ UNCHANGED <<users, now, config, jar, loggedOut, page>>

\* login from user.save() to the response: only the modified path is written
LoginSave(s, salt) ==
    /\ reqs[s].route = "login"
    /\ reqs[s].pc = "save"
    /\ LET id == reqs[s].doc[1].id
           user == reqs[s].doc[1].user
           token == generateAuthToken(id, user, now)
       IN  /\ users' = Save(users, id, user, {"lastLogin"}, salt)
           /\ reqs' =
                 IF SignError(JWT_SECRET) # ""
                 THEN [reqs EXCEPT ![s].pc = "done", ![s].sentBy = "handler",
                         ![s].thrown = SignError(JWT_SECRET),
                         ![s].res = ServerError(NODE_ENV,
                             <<"Server error during login">>,
                             SignError(JWT_SECRET))]
                 ELSE [reqs EXCEPT ![s].pc = "done", ![s].sentBy = "handler",
                         ![s].res = [Json(200, TRUE, <<"Login successful">>)
                             EXCEPT !.token = <<token>>,
                                    !.user = <<getPublicProfile(id, user)>>,
                                    !.cookie = <<SessionCookie(NODE_ENV, COOKIE_EXPIRE, token, now)>>]]
    /\ UNCHANGED <<now, config, jar, loggedOut, page>>

(***************************************************************************)
(* Protected routes: protect, then getProfile, logout or verifyToken       *)
(***************************************************************************)
\* a request to a protected route arrives and passes through protect
Protect(s, route, carried) ==
    /\ reqs[s].pc = "idle"
    /\ LET p == protect(users, now, carried.cookies, carried.authorization)
           token == ExtractToken(carried.cookies, carried.authorization)
       IN  reqs' = [reqs EXCEPT ![s] =
              [IdleReq EXCEPT
                 !.route = route, !.cookies = carried.cookies,
                 !.authorization = carried.authorization,
                 !.at = now, !.size = Len(users),
                 !.after = (token # <<>> /\ token[1] \in loggedOut),
                 !.user = p.user,
                 !.pc = IF p.next THEN "handler" ELSE "done",
                 !.sentBy = IF p.next THEN "" ELSE "middleware",
                 !.res = p.res]]
    /\ UNCHANGED <<users, now, config, jar, loggedOut, page>>

getProfile(store, user) ==
    LET id == findById(store, user.id)
    IN  IF id = 0
        THEN Json(404, FALSE, <<"User not found">>)
        ELSE [Json(200, TRUE, <<>>) EXCEPT
                 !.user = <<getPublicProfile(id, store[id])>>]

logout(t) ==
    [Json(200, TRUE, <<"Logout successful">>) EXCEPT !.cookie = <<LogoutCookie(t)>>]

verifyToken(user) ==
    [Json(200, TRUE, <<>>) EXCEPT !.authenticated = <<TRUE>>, !.user = <<user>>]

\* mutant of Handler: verifyToken stamps the user's lastLogin
HandlerStamps(s) ==
    /\ reqs[s].route \in ProtectedRoutes
    /\ reqs[s].pc = "handler"
    /\ reqs' = [reqs EXCEPT ![s].pc = "done", ![s].sentBy = "handler",
          ![s].handled = TRUE,
          ![s].res = CASE reqs[s].route = "profile" ->
                              getProfile(users, reqs[s].user[1])
                       [] reqs[s].route = "logout" -> logout(now)
                       [] reqs[s].route = "verify" ->
                              verifyToken(reqs[s].user[1])]
    /\ loggedOut' =
          IF reqs[s].route = "logout"
          THEN loggedOut
               \cup {ExtractToken(reqs[s].cookies, reqs[s].authorization)[1]}
          ELSE loggedOut
    /\ users' = IF reqs[s].route = "verify"
                THEN [users EXCEPT ![reqs[s].user[1].id].lastLogin = now]
                ELSE users
    /\ UNCHANGED <<now, config, jar, page>>

\* the route's handler, reached through next()
Handler(s) ==
    /\ reqs[s].route \in ProtectedRoutes
    /\ reqs[s].pc = "handler"
    /\ reqs' = [reqs EXCEPT ![s].pc = "done", ![s].sentBy = "handler",
          ![s].handled = TRUE,
          ![s].res = CASE reqs[s].route = "profile" ->
                              getProfile(users, reqs[s].user[1])
                       [] reqs[s].route = "logout" -> logout(now)
                       [] reqs[s].route = "verify" ->
                              verifyToken(reqs[s].user[1])]
    /\ loggedOut' =
          IF reqs[s].route = "logout"
          THEN loggedOut
               \cup {ExtractToken(reqs[s].cookies, reqs[s].authorization)[1]}
          ELSE loggedOut
    /\ UNCHANGED <<users, now, config, jar, page>>

(***************************************************************************)
(* A route behind optionalAuth                                             *)
(***************************************************************************)
\* a request passes through optionalAuth and is handed on by next()
Optional(s, carried) ==
    /\ reqs[s].pc = "idle"
    /\ LET p == optionalAuth(users, now, carried.cookies, carried.authorization)
       IN  reqs' = [reqs EXCEPT ![s] =
              [IdleReq EXCEPT
                 !.route = "optional", !.cookies = carried.cookies,
                 !.authorization = carried.authorization,
                 !.at = now, !.size = Len(users),
                 !.user = p.user,
                 !.pc = IF p.next THEN "next" ELSE "done",
                 !.sentBy = IF p.next THEN "" ELSE "middleware",
                 !.res = p.res]]
    /\ UNCHANGED <<users, now, config, jar, loggedOut, page>>

(***************************************************************************)
(* Requests refused by cors()                                              *)
(***************************************************************************)
\* a request from an origin cors() refuses: the error goes to the global
\* error handler, whatever the route
CorsRefused(s, origin) ==
    /\ reqs[s].pc = "idle"
    /\ ~CorsAllows(NODE_ENV, origin)
    /\ reqs' = [reqs EXCEPT ![s] =
          [IdleReq EXCEPT
             !.route = "refused", !.pc = "done",
             !.at = now, !.size = Len(users),
             !.thrown = CorsError.message,
             !.sentBy = "errorHandler",
             !.res = globalErrorHandler(NODE_ENV, CorsError)]]
    /\ UNCHANGED <<users, now, config, jar, loggedOut, page>>

(***************************************************************************)
(* The browser                                                             *)
(***************************************************************************)
\* the browser sends a request to a protected route: its token cookie, if it
\* holds a live one, and the Authorization header the page set
Browse(s, route, authorization) ==
    Protect(s, route, Carry(JarCookies(jar, now), authorization))

\* the browser receives the response and stores the cookie it sets
Deliver(s) ==
    /\ reqs[s].pc = "done"
    /\ jar' = StoreCookie(jar, reqs[s].route, reqs[s].res)
    /\ reqs' = [reqs EXCEPT ![s] = IdleReq]
    /\ UNCHANGED <<users, now, config, loggedOut, page>>

(***************************************************************************)
(* The page script: forms, checkAuthStatus and logout                      *)
(***************************************************************************)
\* response.ok: a status from 200 to 299
Ok(res) == res.status >= 200 /\ res.status <= 299

\* the text null, which `Bearer ${token}` holds when no token is stored
NullText ==
    [form |-> "text", sub |-> 0, email |-> <<>>, iat |-> 0, exp |-> 0, sig |-> "null"]

\* 'Authorization': `Bearer ${token}` for the token read from localStorage
PageHeader(stored) ==
    Header(Bearer, <<IF stored # <<>> THEN stored[1] ELSE NullText>>)

\* the submit handlers of the login and register forms after their fetch:
\* token and user are stored when response.ok && data.success
SubmitResponse(s) ==
    /\ reqs[s].route \in {"login", "register"}
    /\ reqs[s].pc = "done"
    /\ jar' = StoreCookie(jar, reqs[s].route, reqs[s].res)
    /\ page' = IF Ok(reqs[s].res) /\ reqs[s].res.success
               THEN [page EXCEPT !.token = reqs[s].res.token,
                                 !.user = reqs[s].res.user,
                                 !.did = "stored",
                     !.status = reqs[s].res.status, !.before = page.token]
               ELSE [page EXCEPT !.did = "refused",
                     !.status = reqs[s].res.status, !.before = page.token]
    /\ reqs' = [reqs EXCEPT ![s] = IdleReq]
    /\ UNCHANGED <<users, now, config, loggedOut>>

\* the catch blocks of the submit handlers: fetch() rejected, or
\* response.json() rejected after the headers, with their Set-Cookie, had
\* arrived
SubmitCatch(s, headers) ==
    /\ reqs[s].route \in {"login", "register"}
    /\ reqs[s].pc = "done"
    /\ jar' = IF headers
              THEN StoreCookie(jar, reqs[s].route, reqs[s].res)
              ELSE jar
    /\ page' = [page EXCEPT !.did = "networkError",
                     !.status = 0, !.before = page.token]
    /\ reqs' = [reqs EXCEPT ![s] = IdleReq]
    /\ UNCHANGED <<users, now, config, loggedOut>>

\* checkAuthStatus when no token is stored: false, nothing is sent
checkAuthStatusNoToken ==
    /\ page.token = <<>>
    /\ page' = [page EXCEPT !.did = "noToken",
                     !.status = 0, !.before = page.token, !.returned = <<FALSE>>]
    /\ UNCHANGED <<users, now, config, reqs, jar, loggedOut>>

\* checkAuthStatus with a stored token: GET /verify with the token in the
\* header and the cookies of the site
checkAuthStatusFetch(s) ==
    /\ page.token # <<>>
    /\ Browse(s, "verify", PageHeader(page.token))

\* mutant of checkAuthStatusResponse: a response that is not OK leaves the
\* storage as it is
checkAuthStatusResponseKeeps(s) ==
    /\ reqs[s].route = "verify"
    /\ reqs[s].pc = "done"
    /\ jar' = StoreCookie(jar, reqs[s].route, reqs[s].res)
    /\ page' = IF Ok(reqs[s].res)
               THEN [page EXCEPT !.did = "ok",
                     !.status = reqs[s].res.status, !.before = page.token, !.returned = <<TRUE>>]
               ELSE [page EXCEPT !.did = "notOk",
                     !.status = reqs[s].res.status, !.before = page.token, !.returned = <<FALSE>>]
    /\ reqs' = [reqs EXCEPT ![s] = IdleReq]
    /\ UNCHANGED <<users, now, config, loggedOut>>

\* checkAuthStatus after its fetch: true when response.ok, else token and
\* user are removed and the result is false
checkAuthStatusResponse(s) ==
    /\ reqs[s].route = "verify"
    /\ reqs[s].pc = "done"
    /\ jar' = StoreCookie(jar, reqs[s].route, reqs[s].res)
    /\ page' = IF Ok(reqs[s].res)
               THEN [page EXCEPT !.did = "ok",
                     !.status = reqs[s].res.status, !.before = page.token, !.returned = <<TRUE>>]
               ELSE [page EXCEPT !.token = <<>>, !.user = <<>>,
                                 !.did = "notOk",
                     !.status = reqs[s].res.status, !.before = page.token, !.returned = <<FALSE>>]
    /\ reqs' = [reqs EXCEPT ![s] = IdleReq]
    /\ UNCHANGED <<users, now, config, loggedOut>>

\* the catch block of checkAuthStatus: fetch() rejected, no response is seen
checkAuthStatusCatch(s) ==
    /\ reqs[s].route = "verify"
    /\ page' = [page EXCEPT !.did = "failed",
                     !.status = 0, !.before = page.token, !.returned = <<FALSE>>]
    /\ reqs' = [reqs EXCEPT ![s] = IdleReq]
    /\ UNCHANGED <<users, now, config, jar, loggedOut>>

\* logout() when confirm() is answered with Cancel
logoutDeclined ==
    /\ page' = [page EXCEPT !.did = "declined",
                     !.status = 0, !.before = page.token]
    /\ UNCHANGED <<users, now, config, reqs, jar, loggedOut>>

\* logout() when confirm() is answered with OK: POST /logout with the stored
\* token in the header
logoutFetch(s) == Browse(s, "logout", PageHeader(page.token))

\* mutant of logoutResponse: the storage is cleared only when response.ok
logoutResponseOnlyOk(s) ==
    /\ reqs[s].route = "logout"
    /\ reqs[s].pc = "done"
    /\ jar' = StoreCookie(jar, reqs[s].route, reqs[s].res)
    /\ page' = IF Ok(reqs[s].res)
               THEN [page EXCEPT !.token = <<>>, !.user = <<>>,
                                 !.did = "loggedOut",
                     !.status = reqs[s].res.status, !.before = page.token]
               ELSE [page EXCEPT !.did = "loggedOut",
                     !.status = reqs[s].res.status, !.before = page.token]
    /\ reqs' = [reqs EXCEPT ![s] = IdleReq]
    /\ UNCHANGED <<users, now, config, loggedOut>>

\* logout() after its fetch: token and user are removed, whatever the status
logoutResponse(s) ==
    /\ reqs[s].route = "logout"
    /\ reqs[s].pc = "done"
    /\ jar' = StoreCookie(jar, reqs[s].route, reqs[s].res)
    /\ page' = [page EXCEPT !.token = <<>>, !.user = <<>>, !.did = "loggedOut",
                     !.status = reqs[s].res.status, !.before = page.token]
    /\ reqs' = [reqs EXCEPT ![s] = IdleReq]
    /\ UNCHANGED <<users, now, config, loggedOut>>

\* the catch block of logout(): fetch() rejected, token and user are removed
logoutCatch(s) ==
    /\ reqs[s].route = "logout"
    /\ page' = [page EXCEPT !.token = <<>>, !.user = <<>>, !.did = "logoutFailed",
                     !.status = 0, !.before = page.token]
    /\ reqs' = [reqs EXCEPT ![s] = IdleReq]
    /\ UNCHANGED <<users, now, config, jar, loggedOut>>

(***************************************************************************)
(* Environment                                                             *)
(***************************************************************************)
\* the response has been delivered; the slot serves the next request
Retire(s) ==
    /\ reqs[s].pc \in {"done", "next"}
    /\ reqs' = [reqs EXCEPT ![s] = IdleReq]
    /\ UNCHANGED <<users, now, config, jar, loggedOut, page>>

Tick ==
    /\ now < MaxTime
    /\ now' = now + 1
    /\ UNCHANGED <<users, config, reqs, jar, loggedOut, page>>

Salts == 1..MaxSalt

(***************************************************************************)
(* Specifications                                                          *)
(*                                                                         *)
(* Spec serves register and login requests concurrently in all slots.      *)
(* SpecSession serves register and login in the first slot and requests to *)
(* the protected routes in the others, so that the tokens of the responses *)
(* held in the first slot can be presented to the middleware.              *)
(***************************************************************************)
Next ==
    \/ \E s \in Slots, body \in RegisterBodies : Register(s, body)
    \/ \E s \in Slots, salt \in Salts : RegisterCreate(s, salt)
    \/ \E s \in Slots, body \in LoginBodies : Login(s, body)
    \/ \E s \in Slots, salt \in Salts : LoginSave(s, salt)
    \/ \E s \in Slots : Retire(s)
    \/ Tick

Spec == Init /\ [][Next]_vars

\* the first slot
AuthSlot == CHOOSE s \in Slots : \A x \in Slots : s <= x

SessionSlots == Slots \ {AuthSlot}

SessionRegisterBodies ==
    {Body(NameAl, e, PwSecret, PwSecret) : e \in {EmailAUpper, EmailB}}

SessionLoginBodies ==
    {Body(<<>>, e, PwSecret, <<>>) : e \in {EmailA, EmailB}}

NextSession ==
    \/ \E body \in SessionRegisterBodies : Register(AuthSlot, body)
    \/ \E salt \in Salts : RegisterCreate(AuthSlot, salt)
    \/ \E body \in SessionLoginBodies : Login(AuthSlot, body)
    \/ \E salt \in Salts : LoginSave(AuthSlot, salt)
    \/ \E s \in SessionSlots, route \in ProtectedRoutes, c \in Credentials :
          Protect(s, route, c)
    \/ \E s \in SessionSlots : Handler(s)
    \/ \E s \in Slots : Retire(s)
    \/ Tick

SpecSession == Init /\ [][NextSession]_vars

\* SpecOptional serves register and login in the first slot and requests to
\* a route behind optionalAuth in the others.
NextOptional ==
    \/ \E body \in SessionRegisterBodies : Register(AuthSlot, body)
    \/ \E salt \in Salts : RegisterCreate(AuthSlot, salt)
    \/ \E body \in SessionLoginBodies : Login(AuthSlot, body)
    \/ \E salt \in Salts : LoginSave(AuthSlot, salt)
    \/ \E s \in SessionSlots, c \in Credentials : Optional(s, c)
    \/ \E s \in Slots : Retire(s)
    \/ Tick

SpecOptional == Init /\ [][NextOptional]_vars

\* SpecService serves register and login in the first slot and, in the
\* others, requests to the protected routes and to a route behind
\* optionalAuth: every operation of the service on one store.
NextService ==
    \/ \E body \in SessionRegisterBodies : Register(AuthSlot, body)
    \/ \E salt \in Salts : RegisterCreate(AuthSlot, salt)
    \/ \E body \in SessionLoginBodies : Login(AuthSlot, body)
    \/ \E salt \in Salts : LoginSave(AuthSlot, salt)
    \/ \E s \in SessionSlots, route \in ProtectedRoutes, c \in Credentials :
          Protect(s, route, c)
    \/ \E s \in SessionSlots : Handler(s)
    \/ \E s \in SessionSlots, c \in Credentials : Optional(s, c)
    \/ \E s \in Slots : Retire(s)
    \/ Tick

SpecService == Init /\ [][NextService]_vars

\* SpecFault is Spec in a process whose JWT_SECRET may not be set.
InitFault ==
    /\ users = <<>>
    /\ now = 0
    /\ NODE_ENV \in {"development", "production"}
    /\ COOKIE_EXPIRE = <<>>
    /\ JWT_SECRET \in {<<>>, <<"secret">>}
    /\ reqs = [s \in Slots |-> IdleReq]
    /\ jar = <<>>
    /\ loggedOut = {}
    /\ page = NoPage

SpecFault == InitFault /\ [][Next]_vars

\* SpecClient is one browser and the server in any environment: the browser
\* registers, logs in and calls the protected routes, sending the token
\* cookie it holds; requests from origins cors() refuses are answered by the
\* global error handler.
Environments == {"development", "production", "test"}

\* COOKIE_EXPIRE not set, set to the empty text, set to one day
CookieExpireSettings == {<<>>, << <<>> >>, << <<"1">> >>}

InitClient ==
    /\ users = <<>>
    /\ now = 0
    /\ NODE_ENV \in Environments
    /\ COOKIE_EXPIRE \in CookieExpireSettings
    /\ JWT_SECRET = <<"secret">>
    /\ reqs = [s \in Slots |-> IdleReq]
    /\ jar = <<>>
    /\ loggedOut = {}
    /\ page = NoPage

ClientRegisterBodies ==
    {Body(NameAl, e, PwSecret, PwSecret) : e \in {EmailA, EmailPlus}}

ClientLoginBodies == {Body(<<>>, EmailA, PwSecret, <<>>)}

\* the header a page sets: none, or a token of a response not yet cleared
PageHeaders == {<<>>} \cup {Header(Bearer, <<t>>) : t \in HandedOut}

\* origins of pages that are not served from an allowed origin
OtherOrigins ==
    {<<Origin("http", "localhost", <<"8","0","8","0">>)>>,
     <<Origin("https", "evil.example", <<>>)>>}

NextClient ==
    \/ \E body \in ClientRegisterBodies : Register(AuthSlot, body)
    \/ \E salt \in Salts : RegisterCreate(AuthSlot, salt)
    \/ \E body \in ClientLoginBodies : Login(AuthSlot, body)
    \/ \E salt \in Salts : LoginSave(AuthSlot, salt)
    \/ \E s \in SessionSlots, route \in ProtectedRoutes, a \in PageHeaders :
          Browse(s, route, a)
    \/ \E s \in SessionSlots : Handler(s)
    \/ \E s \in SessionSlots, origin \in OtherOrigins : CorsRefused(s, origin)
    \/ \E s \in Slots : Deliver(s)
    \/ Tick

SpecClient == InitClient /\ [][NextClient]_vars

\* SpecPage is one page of the site and the server: the forms register and
\* log in, checkAuthStatus and logout() are called at any time, and any fetch
\* may fail on the network.
NextPage ==
    \/ \E body \in ClientRegisterBodies : Register(AuthSlot, body)
    \/ \E salt \in Salts : RegisterCreate(AuthSlot, salt)
    \/ \E body \in ClientLoginBodies : Login(AuthSlot, body)
    \/ \E salt \in Salts : LoginSave(AuthSlot, salt)
    \/ SubmitResponse(AuthSlot)
    \/ \E headers \in BOOLEAN : SubmitCatch(AuthSlot, headers)
    \/ checkAuthStatusNoToken
    \/ \E s \in SessionSlots : checkAuthStatusFetch(s)
    \/ \E s \in SessionSlots : checkAuthStatusResponse(s)
    \/ \E s \in SessionSlots : checkAuthStatusCatch(s)
    \/ logoutDeclined
    \/ \E s \in SessionSlots : logoutFetch(s)
    \/ \E s \in SessionSlots : logoutResponse(s)
    \/ \E s \in SessionSlots : logoutCatch(s)
    \/ \E s \in SessionSlots : Handler(s)
    \/ Tick

SpecPage == Init /\ [][NextPage]_vars



(***************************************************************************)
(* Properties                                                              *)
(***************************************************************************)
Done(s, route) == reqs[s].route = route /\ reqs[s].pc = "done"

\* a register request whose fields pass registerValidation and whose
\* password and confirmPassword agree
WellFormedRegister(s) ==
    /\ reqs[s].route = "register"
    /\ registerValidation(reqs[s].body) = <<>>
    /\ reqs[s].body.password = reqs[s].body.confirmPassword

\* C1: every Register request whose fields pass the route validators, with
\* password equal to confirmPassword and an email no stored user holds, is
\* answered 201 with a token and a user object without a password field, adds
\* one user record, and a later Login with the same email and password is
\* answered 200.
C1_RegisterThenLogin ==
    \A s \in Slots :
        (Done(s, "register") /\ WellFormedRegister(s) /\ ~reqs[s].taken) =>
            /\ reqs[s].res.status = 201
            /\ reqs[s].res.token # <<>>
            /\ reqs[s].res.user # <<>>
            /\ "password" \notin DOMAIN reqs[s].res.user[1]
            /\ reqs[s].created \in DOMAIN users
            /\ users[reqs[s].created].email = ToLowerCase(Trim(reqs[s].body.email))
            /\ \A l \in Slots :
                  (/\ Done(l, "login")
                   /\ reqs[l].body.email = reqs[s].body.email
                   /\ reqs[l].body.password = reqs[s].body.password
                   /\ reqs[l].size >= reqs[s].created) =>
                      reqs[l].res.status = 200

\* C2: Login answers a request for an email no user holds and a request for
\* an existing email with a wrong password with the same response, status 401
\* and message "Invalid email or password".
C2_LoginIndistinguishable ==
    /\ \A s \in Slots :
          (/\ Done(s, "login")
           /\ loginValidation(reqs[s].body) = <<>>
           /\ (~reqs[s].taken \/ ~reqs[s].match)) =>
              /\ reqs[s].res.status = 401
              /\ reqs[s].res.message = <<"Invalid email or password">>
    /\ \A a, b \in Slots :
          (/\ Done(a, "login") /\ loginValidation(reqs[a].body) = <<>>
           /\ Done(b, "login") /\ loginValidation(reqs[b].body) = <<>>
           /\ ~reqs[a].taken
           /\ reqs[b].taken /\ ~reqs[b].match) =>
              reqs[a].res = reqs[b].res

\* both cases of C2 have been answered: unknown email, and known email with a
\* wrong password
C2_Witness ==
    \E a, b \in Slots :
        /\ Done(a, "login") /\ loginValidation(reqs[a].body) = <<>>
        /\ Done(b, "login") /\ loginValidation(reqs[b].body) = <<>>
        /\ ~reqs[a].taken
        /\ reqs[b].taken /\ ~reqs[b].match

\* C3: Register with an email a stored user already holds, in any case
\* variant, is answered 400 "Email already registered" and inserts nothing.
C3_DuplicateEmailRefused ==
    \A s \in Slots :
        (Done(s, "register") /\ WellFormedRegister(s) /\ reqs[s].taken) =>
            /\ reqs[s].res.status = 400
            /\ reqs[s].res.message[1] = "Email already registered"
            /\ reqs[s].created = 0

\* a duplicate was refused whose address differs in case from the stored one
C3_Witness ==
    \E s \in Slots :
        /\ Done(s, "register") /\ WellFormedRegister(s) /\ reqs[s].taken
        /\ \A i \in DOMAIN users : users[i].email # reqs[s].body.email
        /\ reqs[s].res.status = 400

\* C4: under any interleaving of concurrent Register requests, no reachable
\* store holds two users with the same lower-cased email.
C4_EmailUnique ==
    \A i, j \in DOMAIN users :
        i # j => ToLowerCase(users[i].email) # ToLowerCase(users[j].email)

\* two requests for the same address both passed the existence check before
\* either inserted; one has inserted and the other has been refused
C4_Witness ==
    \E a, b \in Slots :
        /\ a # b
        /\ Done(a, "register") /\ Done(b, "register")
        /\ ~reqs[a].taken /\ ~reqs[b].taken
        /\ ToLowerCase(reqs[a].body.email) = ToLowerCase(reqs[b].body.email)
        /\ reqs[a].created # 0
        /\ reqs[b].created = 0
        /\ reqs[b].thrown = "MongoServerError"

\* C5: every Register request that fails because its email is taken is
\* answered 400, also when the other user was inserted between this request's
\* existence check and its own insert.
C5_ConflictIs400 ==
    \A s \in Slots :
        (/\ Done(s, "register") /\ WellFormedRegister(s)
         /\ (reqs[s].taken \/ reqs[s].thrown = "MongoServerError")) =>
            reqs[s].res.status = 400

\* C6: Register with password different from confirmPassword is answered 400
\* and persists no user record.
C6_MismatchRefused ==
    \A s \in Slots :
        (/\ reqs[s].route = "register"
         /\ reqs[s].body.password # reqs[s].body.confirmPassword) =>
            /\ reqs[s].pc = "done"
            /\ reqs[s].res.status = 400
            /\ reqs[s].created = 0

\* a request with valid fields and mismatched passwords has been answered
C6_Witness ==
    \E s \in Slots :
        /\ Done(s, "register")
        /\ registerValidation(reqs[s].body) = <<>>
        /\ reqs[s].body.password # reqs[s].body.confirmPassword
        /\ reqs[s].res.message = <<"Passwords do not match">>


\* the token the middleware takes from the request in slot s
Presented(s) == ExtractToken(reqs[s].cookies, reqs[s].authorization)

\* {id, name, email} of a returned user object
Identity(u) == [id |-> u.id, name |-> u.name, email |-> u.email]

\* the request in slot s carries the token t in exactly one place
CookieAlone(s, t) == reqs[s].cookies = <<t>> /\ reqs[s].authorization = <<>>

HeaderAlone(s, t) ==
    reqs[s].cookies = <<>> /\ reqs[s].authorization = Header(Bearer, <<t>>)

\* C7: a token issued by Login resolves to the same identity {id, name, email}
\* whether it is presented as the token cookie alone or as a bearer header
\* alone, and getProfile and verifyToken answer 200 for that identity.  The
\* middleware gives both presentations the same outcome at every instant, the
\* identity of the user who logged in until the token expires, and the
\* rejection for expiry afterwards.
C7_CookieOrHeaderSameIdentity ==
    \A l \in Slots :
        (Done(l, "login") /\ reqs[l].res.token # <<>>) =>
            LET t == reqs[l].res.token[1]
                who == Identity(reqs[l].res.user[1])
            IN  /\ protect(users, now, <<t>>, <<>>)
                      = protect(users, now, <<>>, Header(Bearer, <<t>>))
                /\ now < t.exp => protect(users, now, <<t>>, <<>>).user = <<who>>
                /\ \A s \in Slots :
                      (/\ reqs[s].route \in {"profile", "verify"}
                       /\ (CookieAlone(s, t) \/ HeaderAlone(s, t))) =>
                          IF reqs[s].at < t.exp
                          THEN /\ reqs[s].user = <<who>>
                               /\ reqs[s].pc = "done" =>
                                     /\ reqs[s].res.status = 200
                                     /\ Identity(reqs[s].res.user[1]) = who
                          ELSE /\ reqs[s].res.status = 401
                               /\ reqs[s].res.message[1] = "Token expired"

\* getProfile has answered 200 to a request carrying a Login token in the
\* header alone
C7_Witness ==
    \E l, s \in Slots :
        /\ Done(l, "login") /\ reqs[l].res.token # <<>>
        /\ Done(s, "profile")
        /\ HeaderAlone(s, reqs[l].res.token[1])
        /\ reqs[s].res.status = 200
        /\ Identity(reqs[s].res.user[1]) = Identity(reqs[l].res.user[1])

\* the request in slot s carries a bearer header with a token
HasBearerToken(s) ==
    /\ reqs[s].authorization # <<>>
    /\ StartsWith(reqs[s].authorization[1].scheme, Bearer)
    /\ reqs[s].authorization[1].words # <<>>

\* the outcome recorded for the request in slot s is the one protect gives
\* for its cookie alone
AsCookieAlone(s) ==
    LET alone == protect(users, reqs[s].at, reqs[s].cookies, <<>>)
    IN  /\ reqs[s].user = alone.user
        /\ (reqs[s].sentBy = "middleware") = ~alone.next
        /\ reqs[s].sentBy = "middleware" => reqs[s].res = alone.res

\* C8 as stated: when a request carries both a token cookie and a bearer
\* header, the outcome is the one the cookie alone would give.
C8_CookieWins ==
    \A s \in Slots :
        (/\ reqs[s].route \in ProtectedRoutes
         /\ reqs[s].cookies # <<>>
         /\ HasBearerToken(s)) => AsCookieAlone(s)

\* C8 as amended: when a request carries both a token cookie with a non-empty
\* value and a bearer header, the middleware verifies only the cookie value:
\* the outcome is the one the cookie alone would give, and the header token is
\* never used.
C8_NonEmptyCookieWins ==
    /\ \A s \in Slots :
          (/\ reqs[s].route \in ProtectedRoutes
           /\ reqs[s].cookies # <<>>
           /\ Truthy(reqs[s].cookies[1])
           /\ HasBearerToken(s)) =>
              /\ AsCookieAlone(s)
              /\ Presented(s) = reqs[s].cookies
    /\ \A c \in CookieChoices, a \in AuthorizationChoices :
          (c # <<>> /\ Truthy(c[1])) =>
              protect(users, now, c, a) = protect(users, now, c, <<>>)

\* a request with the cookie value 'none' and a valid unexpired token in the
\* header has been rejected for its cookie
C8_Witness ==
    \E s \in Slots :
        /\ Done(s, "profile")
        /\ reqs[s].cookies = <<NoneText>>
        /\ HasBearerToken(s)
        /\ Verify(reqs[s].authorization[1].words[1], reqs[s].at) = ""
        /\ reqs[s].sentBy = "middleware"
        /\ reqs[s].res.message[1] = "Invalid token"

\* C9: a handler of a protected route runs only after the session middleware
\* has verified a token and attached an identity to the request; in every
\* other case (no token, bad token, expired token, unknown user) the
\* middleware sends the response itself and the handler never runs.
C9_HandlerOnlyAfterProtect ==
    \A s \in Slots :
        reqs[s].route \in ProtectedRoutes =>
            LET token == Presented(s)
                verified ==
                    /\ token # <<>>
                    /\ token[1].form = "jwt"
                    /\ token[1].sig = "good"
                    /\ reqs[s].at < token[1].exp
                    /\ token[1].sub \in DOMAIN users
            IN  /\ (reqs[s].pc = "handler" \/ reqs[s].handled) =>
                      /\ verified
                      /\ reqs[s].user = <<[id |-> token[1].sub,
                                           name |-> users[token[1].sub].name,
                                           email |-> users[token[1].sub].email]>>
                      /\ reqs[s].sentBy # "middleware"
                /\ ~verified =>
                      /\ reqs[s].pc = "done"
                      /\ reqs[s].sentBy = "middleware"
                      /\ ~reqs[s].handled
                      /\ reqs[s].user = <<>>
                      /\ reqs[s].res.status = 401

\* logout has run for a request whose token the middleware verified
C9_Witness ==
    \E s \in Slots :
        /\ Done(s, "logout")
        /\ reqs[s].handled
        /\ reqs[s].sentBy = "handler"
        /\ reqs[s].user # <<>>
        /\ reqs[s].res.status = 200

\* C10: the session middleware rejects every token past its expiry with 401
\* and classifies failures by message: a malformed or wrongly signed token
\* gives "Invalid token", a validly signed token past its expiry "Token
\* expired", and a verified token whose subject has no user record "User not
\* found".
C10_RejectionMessages ==
    \A s \in Slots :
        (/\ reqs[s].route \in ProtectedRoutes
         /\ Presented(s) # <<>>
         /\ Truthy(Presented(s)[1])) =>
            LET token == Presented(s)[1]
                signed == token.form = "jwt" /\ token.sig = "good"
                expired == reqs[s].at >= token.exp
                res == reqs[s].res
            IN  /\ (token.form = "jwt" /\ expired) => res.status = 401
                /\ ~signed =>
                      res.status = 401 /\ res.message[1] = "Invalid token"
                /\ (signed /\ expired) =>
                      res.status = 401 /\ res.message[1] = "Token expired"
                /\ (signed /\ ~expired /\ token.sub \notin DOMAIN users) =>
                      res.status = 401 /\ res.message[1] = "User not found"

\* a validly signed token of a stored user has been rejected at the instant of
\* its expiry
C10_Witness ==
    \E s \in Slots :
        /\ Done(s, "verify")
        /\ Presented(s) # <<>>
        /\ Presented(s)[1].form = "jwt"
        /\ Presented(s)[1].sig = "good"
        /\ Presented(s)[1].sub \in DOMAIN users
        /\ reqs[s].at = Presented(s)[1].exp
        /\ reqs[s].res.status = 401
        /\ reqs[s].res.message[1] = "Token expired"

\* the last token cookie the browser stored came with a logout response
JarByLogout == jar # <<>> /\ jar[1].by = "logout"

\* C11 as stated: a successful Logout overwrites the token cookie with an
\* empty value that expires immediately, so that no later request from that
\* client carries a token cookie value.
C11_LogoutClearsCookie ==
    JarByLogout =>
        /\ jar[1].cookie.value = EmptyString
        /\ ~Alive(jar[1].cookie, now)
        /\ JarCookies(jar, now) = <<>>

\* C11 as amended: a successful Logout overwrites the token cookie with the
\* value 'none' and an expiry 10 seconds after the response, so that no later
\* request from that client carries its session token in the cookie (until a
\* Login or Register response sets the cookie again): its requests carry the
\* cookie value 'none' until the 10 seconds have passed, and no token cookie
\* afterwards.
C11_LogoutReplacesCookie ==
    /\ \A s \in Slots :
          (Done(s, "logout") /\ reqs[s].res.status = 200) =>
              /\ reqs[s].res.cookie # <<>>
              /\ reqs[s].res.cookie[1].name = "token"
              /\ reqs[s].res.cookie[1].value = NoneText
              /\ reqs[s].res.cookie[1].expires.plusMs = 10 * 1000
    /\ JarByLogout =>
          LET elapsedMs == (now - jar[1].cookie.expires.at) * TickMs
          IN  /\ jar[1].cookie.value = NoneText
              /\ elapsedMs < 10 * 1000 => JarCookies(jar, now) = <<NoneText>>
              /\ elapsedMs >= 10 * 1000 => JarCookies(jar, now) = <<>>

\* after a logout response was stored, a request of the browser carried the
\* cookie value 'none'
C11_Witness ==
    /\ JarByLogout
    /\ \E s \in Slots :
          /\ reqs[s].route \in ProtectedRoutes
          /\ reqs[s].cookies = <<NoneText>>

\* C12: Logout revokes nothing on the server: after any number of Logout
\* calls, a token issued earlier and presented in a bearer header (the request
\* carrying no token cookie) is still accepted by the session middleware on
\* every protected route until the token's own expiry.
C12_LogoutRevokesNothing ==
    /\ \A s \in Slots :
          (/\ reqs[s].route \in ProtectedRoutes
           /\ reqs[s].after
           /\ reqs[s].cookies = <<>>
           /\ HasBearerToken(s)) =>
              LET t == reqs[s].authorization[1].words[1]
              IN  IF reqs[s].at < t.exp
                  THEN /\ reqs[s].sentBy # "middleware"
                       /\ reqs[s].user # <<>>
                       /\ reqs[s].user[1].id = t.sub
                       /\ reqs[s].pc = "done" => reqs[s].res.status = 200
                  ELSE /\ reqs[s].res.status = 401
                       /\ reqs[s].res.message[1] = "Token expired"
    /\ \A t \in loggedOut :
          now < t.exp => protect(users, now, <<>>, Header(Bearer, <<t>>)).next

\* getProfile has answered 200 to a request that presented, in the header
\* alone, a token a logout had been made with before
C12_Witness ==
    \E s \in Slots :
        /\ Done(s, "profile")
        /\ reqs[s].after
        /\ reqs[s].cookies = <<>>
        /\ HasBearerToken(s)
        /\ reqs[s].authorization[1].words[1] \in loggedOut
        /\ reqs[s].res.status = 200

PublicProfileFields == {"id", "name", "email", "registeredAt", "lastLogin"}

IdentityFields == {"id", "name", "email"}

\* C13: no response of Register, Login, GetProfile, VerifyToken or Logout
\* contains the stored password hash or the plaintext password: the user
\* object returned is always the projection {id, name, email, registeredAt,
\* lastLogin} (or {id, name, email} for VerifyToken).
C13_NoPasswordInResponse ==
    \A s \in Slots :
        reqs[s].route \in {"register", "login"} \cup ProtectedRoutes =>
            LET res == reqs[s].res
                sent == reqs[s].body.password
            IN  /\ res.user # <<>> =>
                      /\ DOMAIN res.user[1] =
                            IF reqs[s].route = "verify"
                            THEN IdentityFields ELSE PublicProfileFields
                      /\ \A i \in DOMAIN users :
                            /\ res.user[1].name # users[i].password
                            /\ res.user[1].email # users[i].password
                /\ \A e \in DOMAIN res.errors :
                      /\ sent # <<>> => res.errors[e].value # sent
                      /\ \A i \in DOMAIN users :
                            res.errors[e].value # users[i].password

\* C14: Login with any case variant of a registered email and the correct
\* password responds 200, finds the user stored under the lower-cased email,
\* and sets that user's lastLogin to a timestamp greater than or equal to the
\* user's createdAt.
C14_LoginAnyCase ==
    \A l \in Slots :
        (Done(l, "login") /\ reqs[l].taken /\ reqs[l].match) =>
            /\ reqs[l].res.status = 200
            /\ reqs[l].res.user # <<>>
            /\ LET found == reqs[l].res.user[1]
               IN  /\ found.id \in DOMAIN users
                   /\ found.email = ToLowerCase(Trim(reqs[l].body.email))
                   /\ users[found.id].email = found.email
                   /\ found.lastLogin >= found.registeredAt
                   /\ users[found.id].lastLogin >= users[found.id].createdAt

\* a login with an upper-case variant of the stored address has been answered
\* 200 and the user's lastLogin is later than the registration
C14_Witness ==
    \E l \in Slots :
        /\ Done(l, "login")
        /\ reqs[l].res.status = 200
        /\ reqs[l].body.email # reqs[l].res.user[1].email
        /\ users[reqs[l].res.user[1].id].lastLogin
              > users[reqs[l].res.user[1].id].createdAt

\* C15: every Register or Login request that ends in a 400 or 401 response
\* performs no write to the user store (no user created, no lastLogin
\* changed) and sets no token cookie: the response is sent in the request's
\* first step, and that step leaves the store as it was.
C15_FailuresWriteNothing ==
    [][\A s \in Slots :
          (/\ reqs[s].pc # "done"
           /\ reqs'[s].pc = "done"
           /\ reqs'[s].route \in {"register", "login"}
           /\ reqs'[s].res.status \in {400, 401}) =>
              /\ reqs[s].pc = "idle"
              /\ users' = users
              /\ reqs'[s].created = 0
              /\ reqs'[s].res.cookie = <<>>
              /\ reqs'[s].res.token = <<>>]_vars

\* a Login for a stored user with a wrong password has been answered 401 and
\* a Register for a held address 400
C15_Witness ==
    \E a, b \in Slots :
        /\ Done(a, "login") /\ reqs[a].taken /\ ~reqs[a].match
        /\ reqs[a].res.status = 401
        /\ Done(b, "register") /\ reqs[b].taken
        /\ reqs[b].res.status = 400

\* the request in slot s presented a validly signed, unexpired token whose
\* subject had no user record when the request arrived
OrphanToken(s) ==
    /\ Presented(s) # <<>>
    /\ Presented(s)[1].form = "jwt"
    /\ Presented(s)[1].sig = "good"
    /\ reqs[s].at < Presented(s)[1].exp
    /\ Presented(s)[1].sub > reqs[s].size

\* C16 as stated: GetProfile called with a validly signed, unexpired token
\* whose user record no longer exists in the store responds 404.
C16_VanishedUserIs404 ==
    \A s \in Slots :
        (Done(s, "profile") /\ OrphanToken(s)) => reqs[s].res.status = 404

\* C16 as amended: GetProfile called with a validly signed, unexpired token
\* whose user record does not exist when the session middleware looks it up
\* is answered 401 "User not found" by the middleware, and the handler does
\* not run.
C16_VanishedUserIs401 ==
    \A s \in Slots :
        (reqs[s].route = "profile" /\ OrphanToken(s)) =>
            /\ reqs[s].pc = "done"
            /\ reqs[s].sentBy = "middleware"
            /\ ~reqs[s].handled
            /\ reqs[s].res.status = 401
            /\ reqs[s].res.message[1] = "User not found"

\* a profile request with such a token has been answered
C16_Witness ==
    \E s \in Slots :
        /\ Done(s, "profile")
        /\ OrphanToken(s)
        /\ reqs[s].res.status = 401

\* the token the request in slot s presented verified when the request
\* arrived, and its subject had a user record
Resolves(s) ==
    /\ Presented(s) # <<>>
    /\ Presented(s)[1].form = "jwt"
    /\ Presented(s)[1].sig = "good"
    /\ reqs[s].at < Presented(s)[1].exp
    /\ Presented(s)[1].sub \in 1..reqs[s].size

\* C17: the optional-auth middleware never rejects a request: for every input
\* (no token, malformed token, expired token, unknown user, valid token) it
\* passes the request on without sending a response, and an identity is
\* attached to the request only when the token verifies and its subject id
\* resolves to a user.
C17_OptionalNeverRejects ==
    /\ \A s \in Slots :
          reqs[s].route = "optional" =>
              /\ reqs[s].pc = "next"
              /\ reqs[s].sentBy = ""
              /\ reqs[s].res = NoRes
              /\ reqs[s].user # <<>> <=> Resolves(s)
              /\ reqs[s].user # <<>> =>
                    LET id == Presented(s)[1].sub
                    IN  reqs[s].user = <<[id |-> id, name |-> users[id].name,
                                          email |-> users[id].email]>>
    /\ \A c \in Credentials :
          LET p == optionalAuth(users, now, c.cookies, c.authorization)
          IN  p.next /\ p.res = NoRes

\* a request with a validly signed token past its expiry has been passed on
\* without identity
C17_Witness ==
    \E s \in Slots :
        /\ reqs[s].route = "optional"
        /\ reqs[s].pc = "next"
        /\ Presented(s) # <<>>
        /\ Presented(s)[1].form = "jwt"
        /\ Presented(s)[1].sig = "good"
        /\ Presented(s)[1].sub \in DOMAIN users
        /\ reqs[s].at >= Presented(s)[1].exp
        /\ reqs[s].user = <<>>

\* C18: whenever the process does not run in development mode, every 500
\* response produced by the service (handler catch blocks, session
\* middleware, global error handler) carries no detail of the underlying
\* fault: neither the error's message nor its stack.
C18_NoDetailOutsideDevelopment ==
    \A s \in Slots :
        (NODE_ENV # "development" /\ reqs[s].res.status = 500) =>
            /\ reqs[s].res.error = <<>>
            /\ reqs[s].res.stack = <<>>
            /\ \A i \in DOMAIN reqs[s].res.message :
                  reqs[s].res.message[i] # ErrorMessage(reqs[s].thrown)

DayMs == 24 * 60 * 60 * 1000

\* C19: every successful Register or Login sets a cookie named token whose
\* value is the token returned in the JSON body, with httpOnly set, sameSite
\* strict, secure set exactly when the environment is production, and an
\* expiry of COOKIE_EXPIRE days after the response (7 days when COOKIE_EXPIRE
\* is not configured).
C19_SessionCookie ==
    \A s \in Slots :
        (/\ reqs[s].route \in {"register", "login"}
         /\ reqs[s].pc = "done"
         /\ reqs[s].res.status \in {200, 201}) =>
            /\ reqs[s].res.token # <<>>
            /\ reqs[s].res.cookie # <<>>
            /\ LET c == reqs[s].res.cookie[1]
                   token == reqs[s].res.token[1]
               IN  /\ c.name = "token"
                   /\ c.value = token
                   /\ c.httpOnly
                   /\ c.sameSite = "strict"
                   /\ c.secure <=> NODE_ENV = "production"
                   /\ c.expires.at = token.iat
                   /\ COOKIE_EXPIRE \in {<<>>, << <<>> >>} =>
                         c.expires.plusMs = 7 * DayMs
                   /\ COOKIE_EXPIRE = << <<"1">> >> =>
                         c.expires.plusMs = 1 * DayMs

\* a Login has succeeded in production with COOKIE_EXPIRE set to one day
C19_Witness ==
    \E s \in Slots :
        /\ Done(s, "login")
        /\ reqs[s].res.status = 200
        /\ NODE_ENV = "production"
        /\ COOKIE_EXPIRE = << <<"1">> >>
        /\ reqs[s].res.cookie[1].secure
        /\ reqs[s].res.cookie[1].expires.plusMs = DayMs

\* C20: a user's stored password hash is written once, at registration, and
\* is never re-hashed afterwards: after any sequence of successful Logins
\* (each of which saves the record to update lastLogin) the stored hash is
\* unchanged and the original password still verifies.
C20_HashWrittenOnce ==
    /\ [][\A i \in DOMAIN users : users'[i].password = users[i].password]_vars
    /\ [](\A l \in Slots :
            (Done(l, "login") /\ reqs[l].res.status = 200) =>
                LET id == reqs[l].res.user[1].id
                IN  /\ comparePassword(users[id], reqs[l].body.password)
                    /\ Digest(users[id].password) = reqs[l].body.password)

\* a successful Login has saved the record, moving lastLogin past createdAt,
\* and the password still verifies
C20_Witness ==
    \E l \in Slots :
        /\ Done(l, "login")
        /\ reqs[l].res.status = 200
        /\ LET id == reqs[l].res.user[1].id
           IN  /\ users[id].lastLogin > users[id].createdAt
               /\ comparePassword(users[id], reqs[l].body.password)

StoreNotQueried(body) == RegisterResult(users, body) = RegisterResult(<<>>, body)

\* C22: Register applies its checks in a fixed order and stops at the first
\* that fails: field validation (400 "Validation failed" with per-field
\* errors), then password/confirmPassword equality (400 "Passwords do not
\* match"), then email uniqueness (400 "Email already registered"); a request
\* with mismatched passwords and an already-used email gets the mismatch
\* message, and the store is not queried for it.
C22_RegisterCheckOrder ==
    /\ \A s \in Slots :
          reqs[s].route = "register" =>
              LET body == reqs[s].body
                  res == reqs[s].res
                  invalid == registerValidation(body) # <<>>
                  mismatch == body.password # body.confirmPassword
              IN  /\ invalid =>
                        /\ reqs[s].pc = "done"
                        /\ res.status = 400
                        /\ res.message = <<"Validation failed">>
                        /\ res.errors = registerValidation(body)
                  /\ (~invalid /\ mismatch) =>
                        /\ reqs[s].pc = "done"
                        /\ res.status = 400
                        /\ res.message = <<"Passwords do not match">>
                        /\ res.errors = <<>>
                  /\ (~invalid /\ ~mismatch /\ reqs[s].taken) =>
                        /\ reqs[s].pc = "done"
                        /\ res.status = 400
                        /\ res.message[1] = "Email already registered"
                        /\ res.errors = <<>>
    /\ \A body \in RegisterBodies :
          (\/ registerValidation(body) # <<>>
           \/ body.password # body.confirmPassword) => StoreNotQueried(body)

\* a request with valid fields, mismatched passwords and an address a stored
\* user holds has been answered with the mismatch message
C22_Witness ==
    \E s \in Slots :
        /\ Done(s, "register")
        /\ registerValidation(reqs[s].body) = <<>>
        /\ reqs[s].body.password # reqs[s].body.confirmPassword
        /\ reqs[s].taken
        /\ reqs[s].res.message = <<"Passwords do not match">>

\* localStorage is what it was before the step
StorageUnchanged == page'.token = page.token /\ page'.user = page.user

\* C23: checkAuthStatus returns true only when the server's /verify answered
\* OK to the request it sent with the locally stored token; when /verify
\* answers not-OK it removes both token and user from local storage and
\* returns false; when no token is stored it returns false without contacting
\* the server; on a network failure it returns false and leaves local storage
\* unchanged.
C23_checkAuthStatus ==
    [][/\ \A s \in Slots :
             \* the fetch is made only for a stored token, which it carries
             /\ (reqs[s].route # "verify" /\ reqs'[s].route = "verify") =>
                   /\ page.token # <<>>
                   /\ reqs'[s].authorization = Header(Bearer, page.token)
                   /\ page' = page
             \* the call ends: on the response, or on the failure of the fetch
             /\ (reqs[s].route = "verify" /\ reqs'[s].route # "verify") =>
                   /\ page'.returned \in {<<TRUE>>, <<FALSE>>}
                   /\ page'.returned = <<TRUE>> =>
                         /\ reqs[s].pc = "done"
                         /\ Ok(reqs[s].res)
                         /\ page'.status = reqs[s].res.status
                         /\ StorageUnchanged
                   /\ (page'.status # 0 /\ ~Ok(reqs[s].res)) =>
                         /\ page'.status = reqs[s].res.status
                         /\ page'.token = <<>>
                         /\ page'.user = <<>>
                         /\ page'.returned = <<FALSE>>
                   /\ page'.status = 0 =>
                         /\ page'.did = "failed"
                         /\ page'.returned = <<FALSE>>
                         /\ StorageUnchanged
       /\ (page'.did = "noToken" /\ page' # page) =>
             /\ page.token = <<>>
             /\ page'.returned = <<FALSE>>
             /\ reqs' = reqs
             /\ StorageUnchanged]_vars

\* checkAuthStatus was called with a stored token, /verify answered 401, and
\* the call removed token and user and returned false
C23_Witness ==
    /\ page.did = "notOk"
    /\ page.status = 401
    /\ page.before # <<>>
    /\ page.token = <<>>
    /\ page.user = <<>>
    /\ page.returned = <<FALSE>>

\* C24: a Register or Login request that ends in a 500 response leaves the
\* user store unchanged: no user record has been created and no lastLogin
\* updated by that request, also when the fault occurs in token issuance
\* after the store write was issued.
C24_FaultWritesNothing ==
    [][\A s \in Slots :
          (/\ reqs[s].pc # "done"
           /\ reqs'[s].pc = "done"
           /\ reqs'[s].route \in {"register", "login"}
           /\ reqs'[s].res.status = 500) =>
              /\ users' = users
              /\ reqs'[s].created = 0]_vars

\* the timestamp a successful Login took for lastLogin
Stamp(l) == reqs[l].res.user[1].lastLogin

\* no Login for the user is between its timestamp and its save
NoLoginPending(id) ==
    \A s \in Slots :
        ~(reqs[s].route = "login" /\ reqs[s].pc = "save"
          /\ reqs[s].doc[1].id = id)

\* C25: a user's stored lastLogin never decreases: under any interleaving of
\* concurrent successful Logins for the same user, once all of them have
\* completed the stored lastLogin equals the latest timestamp taken by any of
\* them.
C25_LastLoginMonotonic ==
    /\ [][\A i \in DOMAIN users : users'[i].lastLogin >= users[i].lastLogin]_vars
    /\ [](\A l \in Slots :
            (/\ Done(l, "login")
             /\ reqs[l].res.status = 200
             /\ NoLoginPending(reqs[l].res.user[1].id)) =>
                users[reqs[l].res.user[1].id].lastLogin >= Stamp(l))

\* the response is the middleware's rejection of a token that is no JWT
InvalidToken(s) ==
    /\ reqs[s].pc = "done"
    /\ reqs[s].sentBy = "middleware"
    /\ ~reqs[s].handled
    /\ reqs[s].res.status = 401
    /\ reqs[s].res.message[1] = "Invalid token"

\* C26: while the cookie written by Logout (value 'none', lifetime 10
\* seconds) is still sent by the client, every request of that client to a
\* protected route is rejected with 401 "Invalid token", even when the request
\* also carries a valid unexpired token in the Authorization: Bearer header; a
\* following successful Login or Register replaces that cookie and ends the
\* rejection.
C26_LogoutCookieRejects ==
    /\ [](/\ \A s \in Slots :
                (/\ reqs[s].route \in ProtectedRoutes
                 /\ reqs[s].cookies = <<NoneText>>) => InvalidToken(s)
          /\ (JarByLogout /\ Alive(jar[1].cookie, now)) =>
                /\ JarCookies(jar, now) = <<NoneText>>
                /\ \A a \in PageHeaders :
                      LET p == protect(users, now, JarCookies(jar, now), a)
                      IN  /\ ~p.next
                          /\ p.res.status = 401
                          /\ p.res.message[1] = "Invalid token"
          /\ (jar # <<>> /\ jar[1].by \in {"login", "register"}) =>
                LET t == jar[1].cookie.value
                    p == protect(users, now, JarCookies(jar, now), <<>>)
                IN  /\ JarCookies(jar, now) = <<t>>
                    /\ now < t.exp => p.next /\ p.user[1].id = t.sub)
    /\ [][\A s \in Slots :
             (/\ JarByLogout
              /\ reqs[s].route \in {"login", "register"}
              /\ reqs[s].pc = "done"
              /\ reqs[s].res.status \in {200, 201}
              /\ reqs'[s].pc = "idle") =>
                 /\ jar'[1].by = reqs[s].route
                 /\ jar'[1].cookie.value = reqs[s].res.token[1]]_vars

\* with the cookie of a logout in the jar, a request that also carried a
\* valid unexpired token of a stored user in the header has been rejected
C26_Witness ==
    /\ JarByLogout
    /\ \E s \in Slots :
          /\ Done(s, "profile")
          /\ reqs[s].cookies = <<NoneText>>
          /\ HasBearerToken(s)
          /\ Verify(reqs[s].authorization[1].words[1], reqs[s].at) = ""
          /\ reqs[s].authorization[1].words[1].sub \in DOMAIN users
          /\ InvalidToken(s)

\* the request in slot s presented a token the service issued: validly
\* signed, and not the token made for a subject the store never had
Issued(s) ==
    /\ Presented(s) # <<>>
    /\ Presented(s)[1].form = "jwt"
    /\ Presented(s)[1].sig = "good"
    /\ Presented(s)[1] # StrayToken

\* the first sentence of a response's message, "" if it has none
FirstSentence(res) == IF res.message = <<>> THEN "" ELSE res.message[1]

\* C27: because no operation removes or re-keys a user, every token issued by
\* Register or Login resolves to an existing user for as long as it is
\* unexpired: in every reachable state the middleware's "User not found"
\* rejection and getProfile's 404 branch are unreachable for tokens the
\* service issued.
C27_IssuedTokensResolve ==
    /\ \A t \in HandedOut :
          /\ t.sub \in DOMAIN users
          /\ users[t.sub].email = t.email
          /\ users[t.sub].createdAt <= t.iat
          /\ now < t.exp =>
                protect(users, now, <<t>>, <<>>).user =
                    <<[id |-> t.sub, name |-> users[t.sub].name,
                       email |-> t.email]>>
    /\ \A s \in Slots :
          (reqs[s].route \in ProtectedRoutes /\ Issued(s)) =>
              /\ Presented(s)[1].sub \in 1..reqs[s].size
              /\ FirstSentence(reqs[s].res) # "User not found"
              /\ reqs[s].res.status # 404
              /\ reqs[s].at < Presented(s)[1].exp =>
                    /\ reqs[s].sentBy # "middleware"
                    /\ reqs[s].user # <<>>
                    /\ reqs[s].user[1].id = Presented(s)[1].sub

\* with two users in the store, getProfile has answered 200 for a token of
\* the first user presented in the cookie
C27_Witness ==
    \E s \in Slots :
        /\ Done(s, "profile")
        /\ Issued(s)
        /\ reqs[s].cookies = Presented(s)
        /\ Presented(s)[1].sub = 1
        /\ Len(users) = 2
        /\ reqs[s].handled
        /\ reqs[s].res.status = 200
        /\ reqs[s].res.user[1].id = 1

\* C28: once the user confirms the page's logout(), token and user are
\* removed from local storage on every path: when the server answers 200,
\* when it answers an error status such as 401, and when the request fails on
\* the network; when the confirmation is declined nothing is sent and local
\* storage is unchanged.
C28_logoutClearsStorage ==
    [][/\ \A s \in Slots :
             \* confirmed: the request is sent with the stored token
             /\ (reqs[s].route # "logout" /\ reqs'[s].route = "logout") =>
                   /\ reqs'[s].authorization = PageHeader(page.token)
                   /\ page' = page
             \* the call ends: on a response of any status, or on the failure
             /\ (reqs[s].route = "logout" /\ reqs'[s].route # "logout") =>
                   /\ page'.token = <<>>
                   /\ page'.user = <<>>
                   /\ page'.status \in {0, reqs[s].res.status}
       /\ (page'.did = "declined" /\ page' # page) =>
             /\ reqs' = reqs
             /\ jar' = jar
             /\ StorageUnchanged]_vars

\* logout() was confirmed with a token stored, the server answered 401, and
\* token and user are gone
C28_Witness ==
    /\ page.did = "loggedOut"
    /\ page.status = 401
    /\ page.before # <<>>
    /\ page.token = <<>>
    /\ page.user = <<>>

=============================================================================
